---------------------------- MODULE Spec2Model ----------------------------
(***************************************************************************)
(* Model of src/app.py: the deposit-notification parser, the two ledger    *)
(* tables (payments, expenses), the monthly aggregation, the retention     *)
(* pruner, undo, and the Telegram handlers that drive them.                *)
(*                                                                         *)
(* Representation.                                                         *)
(*  - A Python str is a sequence of characters; a character is a one-      *)
(*    character string, a non-ASCII character is written by name           *)
(*    ("MONEYBAG" U+1F4B0, "O_ACUTE", "o_acute", "o_circ", "NBSP" U+00A0,  *)
(*    "FF" the form feed, "VT" the vertical tab).                          *)
(*  - A float, and the REAL amount of a row, is the binary64 number it is:  *)
(*    sign, 53-bit significand (in two halves) and exponent, or inf, -inf, *)
(*    nan; arithmetic rounds to nearest, ties to even, as the machine's.   *)
(*    NullAmount is the NULL a nan is stored as.                           *)
(*  - SQL NULL / Python None is the empty sequence <<>>, a value v is <<v>>*)
(*    wherever the code distinguishes the two.                             *)
(***************************************************************************)
EXTENDS Integers, Sequences, FiniteSets, TLC

(***************************************************************************)
(* Characters and strings                                                  *)
(***************************************************************************)
DigitChars == <<"0", "1", "2", "3", "4", "5", "6", "7", "8", "9">>

IsDigit(c) == \E i \in 1..10 : DigitChars[i] = c

DigitVal(c) == (CHOOSE i \in 1..10 : DigitChars[i] = c) - 1

Min(a, b) == IF a <= b THEN a ELSE b

Max(a, b) == IF a >= b THEN a ELSE b

UpperChars ==
    <<"A", "B", "C", "D", "E", "F", "G", "H", "I", "J", "K", "L", "M", "N",
      "O", "P", "Q", "R", "S", "T", "U", "V", "W", "X", "Y", "Z", "O_ACUTE",
      "U_ACUTE">>

LowerChars ==
    <<"a", "b", "c", "d", "e", "f", "g", "h", "i", "j", "k", "l", "m", "n",
      "o", "p", "q", "r", "s", "t", "u", "v", "w", "x", "y", "z", "o_acute",
      "u_acute", "o_circ", "e_circ", "INFO">>

\* re.IGNORECASE folds both sides of a comparison to one case.
Lower(c) ==
    IF \E i \in 1..Len(UpperChars) : UpperChars[i] = c
    THEN LowerChars[CHOOSE i \in 1..Len(UpperChars) : UpperChars[i] = c]
    ELSE c

\* str.isalpha(): the letters of either case, INFO (U+2139) being a
\* lower-case letter without an upper-case one.
IsLetter(c) ==
    \/ \E i \in 1..Len(UpperChars) : UpperChars[i] = c
    \/ \E i \in 1..Len(LowerChars) : LowerChars[i] = c

\* \w of a str pattern: letters, digits, underscore.
IsWord(c) == IsLetter(c) \/ IsDigit(c) \/ c = "_"

\* The whitespace of Unicode, by name where the character has no escape:
\* U+0009 to U+000D, U+001C to U+001F, the space, U+0085, U+00A0, U+1680,
\* U+2000 to U+200A, U+2028, U+2029, U+202F, U+205F and U+3000.
SpaceChars ==
    {"\t", "\n", "VT", "FF", "\r", "FS", "GS", "RS", "US", " ", "NEL", "NBSP",
     "OGHAM_SPACE", "EN_QUAD", "EM_QUAD", "EN_SPACE", "EM_SPACE",
     "THREE_PER_EM_SPACE", "FOUR_PER_EM_SPACE", "SIX_PER_EM_SPACE",
     "FIGURE_SPACE", "PUNCTUATION_SPACE", "THIN_SPACE", "HAIR_SPACE",
     "LINE_SEPARATOR", "PARAGRAPH_SEPARATOR", "NARROW_NBSP",
     "MEDIUM_MATH_SPACE", "IDEOGRAPHIC_SPACE"}

\* \s of a str pattern, and what str.strip() removes: str.isspace().
IsSpace(c) == c \in SpaceChars

\* The byte order SQLite's BINARY collation and Python's str comparison use,
\* for the characters of a date or an ISO timestamp.
Code(c) ==
    CASE c = "-" -> 45
      [] c = "0" -> 48 [] c = "1" -> 49 [] c = "2" -> 50 [] c = "3" -> 51
      [] c = "4" -> 52 [] c = "5" -> 53 [] c = "6" -> 54 [] c = "7" -> 55
      [] c = "8" -> 56 [] c = "9" -> 57
      [] c = ":" -> 58
      [] c = "T" -> 84
      [] OTHER -> 127

\* a < b for two strings: decided by the first position where they differ,
\* a proper prefix being smaller.
StrLess(a, b) ==
    LET n == IF Len(a) <= Len(b) THEN Len(a) ELSE Len(b)
    IN  IF \A i \in 1..n : a[i] = b[i] THEN Len(a) < Len(b)
        ELSE LET i == CHOOSE k \in 1..n :
                          a[k] /= b[k] /\ \A j \in 1..(k - 1) : a[j] = b[j]
             IN  Code(a[i]) < Code(b[i])

StrLeq(a, b) == a = b \/ StrLess(a, b)

RECURSIVE Digits(_)
\* The decimal digits of a natural number.
Digits(n) == IF n < 10 THEN <<DigitChars[n + 1]>>
             ELSE Digits(n \div 10) \o <<DigitChars[(n % 10) + 1]>>

\* str(n) of an integer
Str(n) == IF n < 0 THEN <<"-">> \o Digits(-n) ELSE Digits(n)

\* The digits of a natural number, zero padded to at least w characters.
PadNat(n, w) ==
    LET ds == Digits(n)
    IN  IF Len(ds) >= w THEN ds
        ELSE [i \in 1..(w - Len(ds)) |-> "0"] \o ds

\* format(n, "0<w>d"): zero padded to at least w characters, the sign of a
\* negative number counted among them.
Pad(n, w) == IF n < 0 THEN <<"-">> \o PadNat(-n, w - 1) ELSE PadNat(n, w)

RECURSIVE ToNat(_)
\* int() of a string of digits.
ToNat(ds) == IF ds = <<>> THEN 0
             ELSE 10 * ToNat(SubSeq(ds, 1, Len(ds) - 1)) + DigitVal(ds[Len(ds)])

\* s.replace(old, new) for single characters (new may be the empty string).
Replace(s, old, new) ==
    LET RECURSIVE R(_)
        R(i) == IF i > Len(s) THEN <<>>
                ELSE (IF s[i] = old THEN new ELSE <<s[i]>>) \o R(i + 1)
    IN  R(1)

\* s without the characters of `chars` at its two ends
StripChars(s, chars) ==
    IF \A i \in 1..Len(s) : s[i] \in chars THEN <<>>
    ELSE LET a == CHOOSE i \in 1..Len(s) :
                    s[i] \notin chars /\ \A k \in 1..(i - 1) : s[k] \in chars
             b == CHOOSE i \in 1..Len(s) :
                    s[i] \notin chars /\ \A k \in (i + 1)..Len(s) : s[k] \in chars
         IN  SubSeq(s, a, b)

\* s.strip()
Strip(s) == StripChars(s, SpaceChars)

\* What float() and int() skip around a number: the whitespace but for
\* U+001C to U+001F, which they refuse.
NumberSpace == SpaceChars \ {"FS", "GS", "RS", "US"}

Contains(s, c) == \E i \in 1..Len(s) : s[i] = c

(***************************************************************************)
(* Dates                                                                   *)
(***************************************************************************)
\* strftime("%Y-%m-%d") of a date: %Y of the C library writes the year
\* without padding, so a year below 1000 has fewer than four digits.
FormatDate(y, m, d) == Digits(y) \o <<"-">> \o Pad(m, 2) \o <<"-">> \o Pad(d, 2)

IsLeap(y) == (y % 4 = 0 /\ y % 100 /= 0) \/ y % 400 = 0

DaysInMonth(y, m) ==
    IF m = 2 THEN (IF IsLeap(y) THEN 29 ELSE 28)
    ELSE IF m \in {4, 6, 9, 11} THEN 30 ELSE 31

\* month_range with the December case forgotten: the end of month 12 stays in
\* the same year.
month_range_norollover(year, month) ==
    LET start == Pad(year, 4) \o <<"-">> \o Pad(month, 2) \o <<"-", "0", "1">>
        end   == Pad(year, 4) \o <<"-">>
                 \o Pad(IF month = 12 THEN 1 ELSE month + 1, 2)
                 \o <<"-", "0", "1">>
    IN  <<start, end>>

\* month_range(year, month): <<start, end>> as "%Y-%m-%d" strings
month_range(year, month) ==
    LET start == Pad(year, 4) \o <<"-">> \o Pad(month, 2) \o <<"-", "0", "1">>
        end   == Pad(year + (IF month = 12 THEN 1 ELSE 0), 4) \o <<"-">>
                 \o Pad(IF month = 12 THEN 1 ELSE month + 1, 2)
                 \o <<"-", "0", "1">>
    IN  <<start, end>>

(***************************************************************************)
(* Parser: the regular expressions, matched as re matches them             *)
(***************************************************************************)
\* The literal lit occurs in t at position i (IGNORECASE).
MatchLitCI(t, i, lit) ==
    /\ i + Len(lit) - 1 <= Len(t)
    /\ \A k \in 1..Len(lit) : Lower(t[i + k - 1]) = Lower(lit[k])

\* The literal lit occurs in t at position i (case-sensitive).
MatchLit(t, i, lit) ==
    /\ i + Len(lit) - 1 <= Len(t)
    /\ \A k \in 1..Len(lit) : t[i + k - 1] = lit[k]

\* \s* from position i: the position after the longest run of whitespace.
SkipSpaces(t, i) ==
    CHOOSE j \in i..(Len(t) + 1) :
        /\ \A k \in i..(j - 1) : IsSpace(t[k])
        /\ j = Len(t) + 1 \/ ~IsSpace(t[j])

\* [0-9]* from position i: the position after the longest run of digits.
SkipDigits(t, i) ==
    CHOOSE j \in i..(Len(t) + 1) :
        /\ \A k \in i..(j - 1) : IsDigit(t[k])
        /\ j = Len(t) + 1 \/ ~IsDigit(t[j])

\* [0-9]{n} at position i
DigitsAt(t, i, n) == i + n - 1 <= Len(t) /\ \A k \in i..(i + n - 1) : IsDigit(t[k])

\* re.search: hits[i] is the match found at position i (<<value>>) or <<>>;
\* the scan returns the match of the leftmost position that has one.
Search(hits) ==
    IF \E i \in DOMAIN hits : hits[i] /= <<>>
    THEN hits[CHOOSE i \in DOMAIN hits :
                 hits[i] /= <<>> /\ \A k \in 1..(i - 1) : hits[k] = <<>>]
    ELSE <<>>

\* An amount R\$\s*([0-9]+[.,][0-9]{2}) at position i, whatever label stands
\* before it.
CurrencyAt(t, i) ==
    IF ~MatchLitCI(t, i, <<"R", "$">>) THEN <<>>
    ELSE LET c == SkipSpaces(t, i + 2)
             d == SkipDigits(t, c)
         IN  IF /\ d > c
                /\ d <= Len(t)
                /\ t[d] \in {".", ","}
                /\ DigitsAt(t, d + 1, 2)
             THEN <<SubSeq(t, c, d + 2)>>
             ELSE <<>>

\* VALOR_RE with the "Valor:" label dropped from the pattern.
VALOR_RE_nolabel(t) == Search([i \in 1..Len(t) |-> CurrencyAt(t, i)])

\* VALOR_RE = Valor:\s*R\$\s*([0-9]+[.,][0-9]{2}), IGNORECASE, at position i:
\* <<group 1>> or <<>>.
ValorAt(t, i) ==
    IF ~MatchLitCI(t, i, <<"V", "a", "l", "o", "r", ":">>) THEN <<>>
    ELSE LET b == SkipSpaces(t, i + 6)
         IN  IF ~MatchLitCI(t, b, <<"R", "$">>) THEN <<>>
             ELSE LET c == SkipSpaces(t, b + 2)
                      d == SkipDigits(t, c)
                  IN  IF /\ d > c
                         /\ d <= Len(t)
                         /\ t[d] \in {".", ","}
                         /\ DigitsAt(t, d + 1, 2)
                      THEN <<SubSeq(t, c, d + 2)>>
                      ELSE <<>>

VALOR_RE(t) == Search([i \in 1..Len(t) |-> ValorAt(t, i)])

\* USER_RE = User:\s*([0-9]+), case-sensitive
UserAt(t, i) ==
    IF ~MatchLit(t, i, <<"U", "s", "e", "r", ":">>) THEN <<>>
    ELSE LET c == SkipSpaces(t, i + 5)
             d == SkipDigits(t, c)
         IN  IF d > c THEN <<SubSeq(t, c, d - 1)>> ELSE <<>>

USER_RE(t) == Search([i \in 1..Len(t) |-> UserAt(t, i)])

\* REF_RE = Indicado por:\s*([0-9]+), IGNORECASE
RefAt(t, i) ==
    IF ~MatchLitCI(t, i, <<"I", "n", "d", "i", "c", "a", "d", "o", " ",
                           "p", "o", "r", ":">>) THEN <<>>
    ELSE LET c == SkipSpaces(t, i + 13)
             d == SkipDigits(t, c)
         IN  IF d > c THEN <<SubSeq(t, c, d - 1)>> ELSE <<>>

REF_RE(t) == Search([i \in 1..Len(t) |-> RefAt(t, i)])

\* [0-9]{2}:[0-9]{2}:[0-9]{2} at position i
TimeAt(t, i) ==
    /\ DigitsAt(t, i, 2) /\ MatchLit(t, i + 2, <<":">>)
    /\ DigitsAt(t, i + 3, 2) /\ MatchLit(t, i + 5, <<":">>)
    /\ DigitsAt(t, i + 6, 2)

\* DATA_RE = Data:\s*([0-9]{2}/[0-9]{2}/[0-9]{4})(?:\s+([0-9]{2}:[0-9]{2}:[0-9]{2}))?
\* case-sensitive: <<[g1 |-> group 1, g2 |-> group 2 or <<>> for None]>> or <<>>.
DataAt(t, i) ==
    IF ~MatchLit(t, i, <<"D", "a", "t", "a", ":">>) THEN <<>>
    ELSE LET c == SkipSpaces(t, i + 5)
         IN  IF /\ DigitsAt(t, c, 2) /\ MatchLit(t, c + 2, <<"/">>)
                /\ DigitsAt(t, c + 3, 2) /\ MatchLit(t, c + 5, <<"/">>)
                /\ DigitsAt(t, c + 6, 4)
             THEN LET e == c + 10
                      f == SkipSpaces(t, e)
                  IN  <<[g1 |-> SubSeq(t, c, c + 9),
                         g2 |-> IF f > e /\ TimeAt(t, f)
                                THEN SubSeq(t, f, f + 7) ELSE <<>>]>>
             ELSE <<>>

DATA_RE(t) == Search([i \in 1..Len(t) |-> DataAt(t, i)])

\* BLOCK_SPLIT_RE = (?:^|\n)\s*[MONEYBAG]\s*Novo\s+DEP[O_ACUTE O]SITO\b,
\* IGNORECASE, at position i: <<the position after the match>> or <<>>.
\* ^ (no MULTILINE) matches at the start of the text only.
MarkerBodyAt(t, b) ==
    LET c == SkipSpaces(t, b)
    IN  IF ~MatchLit(t, c, <<"MONEYBAG">>) THEN <<>>
        ELSE LET d == SkipSpaces(t, c + 1)
             IN  IF ~MatchLitCI(t, d, <<"N", "o", "v", "o">>) THEN <<>>
                 ELSE LET e == SkipSpaces(t, d + 4)
                      IN  IF /\ e > d + 4
                             /\ MatchLitCI(t, e, <<"D", "E", "P">>)
                             /\ e + 3 <= Len(t)
                             /\ Lower(t[e + 3]) \in {"o_acute", "o"}
                             /\ MatchLitCI(t, e + 4, <<"S", "I", "T", "O">>)
                             /\ e + 8 > Len(t) \/ ~IsWord(t[e + 8])
                          THEN <<e + 8>>
                          ELSE <<>>

BlockAt(t, i) ==
    IF i = 1 /\ MarkerBodyAt(t, 1) /= <<>> THEN MarkerBodyAt(t, 1)
    ELSE IF t[i] = "\n" THEN MarkerBodyAt(t, i + 1)
    ELSE <<>>

RECURSIVE SplitFrom(_, _)
\* BLOCK_SPLIT_RE.split(text), from position lo on: the pieces between the
\* successive leftmost matches, the empty ones included.
SplitFrom(t, lo) ==
    IF \E i \in lo..Len(t) : BlockAt(t, i) /= <<>>
    THEN LET s == CHOOSE i \in lo..Len(t) :
                     BlockAt(t, i) /= <<>>
                     /\ \A k \in lo..(i - 1) : BlockAt(t, k) = <<>>
         IN  <<SubSeq(t, lo, s - 1)>> \o SplitFrom(t, BlockAt(t, s)[1])
    ELSE <<SubSeq(t, lo, Len(t))>>

BLOCK_SPLIT_RE(t) == SplitFrom(t, 1)

(***************************************************************************)
(* Whole numbers of any size                                               *)
(***************************************************************************)
\* A whole number is the sequence of its digits in base 2^15, the lowest
\* first, without zeros at the high end; <<>> is zero.
Radix == 2 ^ 15

RECURSIVE BigOfNat(_)
BigOfNat(n) == IF n = 0 THEN <<>> ELSE <<n % Radix>> \o BigOfNat(n \div Radix)

\* a without the zeros at its high end
BigTrim(a) ==
    SubSeq(a, 1, CHOOSE m \in 0..Len(a) :
                     (m = 0 \/ a[m] /= 0) /\ \A j \in (m + 1)..Len(a) : a[j] = 0)

\* Digit i of a, 0 beyond its length.
BigLimb(a, i) == IF i <= Len(a) THEN a[i] ELSE 0

\* The carry into digit i of a + b: a digit below it overflows and every
\* digit between passes the carry on.
AddCarry(a, b, i) ==
    IF \E j \in 1..(i - 1) :
           /\ BigLimb(a, j) + BigLimb(b, j) >= Radix
           /\ \A k \in (j + 1)..(i - 1) : BigLimb(a, k) + BigLimb(b, k) = Radix - 1
    THEN 1 ELSE 0

\* a + b
BigAdd(a, b) ==
    BigTrim([i \in 1..(Max(Len(a), Len(b)) + 1) |->
                (BigLimb(a, i) + BigLimb(b, i) + AddCarry(a, b, i)) % Radix])

\* The borrow from digit i of a - b
SubBorrow(a, b, i) ==
    IF \E j \in 1..(i - 1) :
           /\ a[j] < BigLimb(b, j)
           /\ \A k \in (j + 1)..(i - 1) : a[k] = BigLimb(b, k)
    THEN 1 ELSE 0

\* a - b for a >= b
BigSub(a, b) ==
    BigTrim([i \in 1..Len(a) |->
                (a[i] - BigLimb(b, i) - SubBorrow(a, b, i) + Radix) % Radix])

\* The digit of a comparison: -1, 0 or 1 as x is below, equal to or above y.
Sign(x, y) == IF x < y THEN -1 ELSE IF x > y THEN 1 ELSE 0

\* -1, 0 or 1 as a is below, equal to or above b
BigCmp(a, b) ==
    IF Len(a) /= Len(b) THEN Sign(Len(a), Len(b))
    ELSE IF \A i \in 1..Len(a) : a[i] = b[i] THEN 0
    ELSE Sign(a[CHOOSE i \in 1..Len(a) :
                    a[i] /= b[i] /\ \A j \in (i + 1)..Len(a) : a[j] = b[j]],
              b[CHOOSE i \in 1..Len(a) :
                    a[i] /= b[i] /\ \A j \in (i + 1)..Len(a) : a[j] = b[j]])

\* a * k + c, for k <= 2^15
BigMulSmall(a, k, c) ==
    BigAdd(BigAdd([i \in 1..Len(a) |-> (a[i] * k) % Radix],
                  <<0>> \o [i \in 1..Len(a) |-> (a[i] * k) \div Radix]),
           BigOfNat(c))

\* a * 2^n
BigShl(a, n) ==
    IF a = <<>> THEN <<>>
    ELSE [j \in 1..(n \div 15) |-> 0] \o BigMulSmall(a, (2 ^ (n % 15)), 0)

\* a \div 2^n
BigShr(a, n) ==
    IF Len(a) <= (n \div 15) THEN <<>>
    ELSE BigTrim([i \in 1..(Len(a) - (n \div 15)) |->
                    (a[i + (n \div 15)] \div (2 ^ (n % 15)))
                    + (BigLimb(a, i + (n \div 15) + 1) % (2 ^ (n % 15)))
                      * (2 ^ (15 - (n % 15)))])

\* a is a multiple of 2^n
BigLowZero(a, n) ==
    /\ \A i \in 1..Min(Len(a), n \div 15) : a[i] = 0
    /\ BigLimb(a, (n \div 15) + 1) % (2 ^ (n % 15)) = 0

\* Bit i of a, bit 0 being the lowest.
BigBit(a, i) == (BigLimb(a, (i \div 15) + 1) \div (2 ^ (i % 15))) % 2

RECURSIVE BitLen(_)
BitLen(x) == IF x = 0 THEN 0 ELSE 1 + BitLen(x \div 2)

\* The number of bits of a
BigBitLen(a) == IF a = <<>> THEN 0 ELSE 15 * (Len(a) - 1) + BitLen(a[Len(a)])

RECURSIVE BigMulRange(_, _, _, _)
\* a times the digits lo..hi of b, each at its place
BigMulRange(a, b, lo, hi) ==
    IF lo = hi
    THEN (IF b[lo] = 0 THEN <<>> ELSE [j \in 1..(lo - 1) |-> 0] \o BigMulSmall(a, b[lo], 0))
    ELSE BigAdd(BigMulRange(a, b, lo, (lo + hi) \div 2),
                BigMulRange(a, b, ((lo + hi) \div 2) + 1, hi))

\* a * b
BigMul(a, b) == IF a = <<>> \/ b = <<>> THEN <<>> ELSE BigMulRange(a, b, 1, Len(b))

RECURSIVE BigPow10(_)
\* 10^n
BigPow10(n) ==
    IF n < 5 THEN BigOfNat(10 ^ n)
    ELSE BigMul(BigPow10(n \div 2), BigPow10(n - (n \div 2)))

RECURSIVE SmallNat(_, _, _)
\* The number the decimal digits ds[lo..hi] write, for four digits at most.
SmallNat(ds, lo, hi) ==
    IF lo > hi THEN 0 ELSE SmallNat(ds, lo, hi - 1) * 10 + DigitVal(ds[hi])

RECURSIVE BigOfDigits(_, _, _)
\* The number the decimal digits ds[lo..hi] write.
BigOfDigits(ds, lo, hi) ==
    IF hi - lo < 4 THEN BigOfNat(SmallNat(ds, lo, hi))
    ELSE BigAdd(BigMul(BigOfDigits(ds, lo, (lo + hi) \div 2),
                       BigPow10(hi - ((lo + hi) \div 2))),
                BigOfDigits(ds, ((lo + hi) \div 2) + 1, hi))

(***************************************************************************)
(* Floats: the binary64 numbers of Python and of a REAL column             *)
(***************************************************************************)
\* A float is a record.  A number (kind "num") is its sign and
\* (hi * 2^26 + lo) * 2^e, the significand below 2^53 and, unless e is
\* -1074, not below 2^52; zero has the significand 0 and e = -1074.
Double(neg, hi, lo, e) == [kind |-> "num", neg |-> neg, hi |-> hi, lo |-> lo, e |-> e]

Zero(neg) == Double(neg, 0, 0, -1074)

Inf(neg) == [kind |-> "inf", neg |-> neg, hi |-> 0, lo |-> 0, e |-> 0]

\* float("inf"), float("-inf"), float("nan")
PosInf == Inf(FALSE)

NegInf == Inf(TRUE)

NaN == [kind |-> "nan", neg |-> FALSE, hi |-> 0, lo |-> 0, e |-> 0]

\* The NULL of a REAL column
NullAmount == [kind |-> "null", neg |-> FALSE, hi |-> 0, lo |-> 0, e |-> 0]

IsFinite(a) == a.kind = "num"

IsZero(a) == a.kind = "num" /\ a.hi = 0 /\ a.lo = 0

\* a >= 0 (a no NULL): -0.0 >= 0 holds, nan >= 0 does not.
NonNegative(a) == (a.kind = "num" /\ (~a.neg \/ IsZero(a))) \/ (a.kind = "inf" /\ ~a.neg)

\* The significand of a number as a whole number, and back.
BigOfSig(a) ==
    BigTrim(<<a.lo % Radix,
              (a.lo \div Radix) + (a.hi % 16) * 2048,
              (a.hi \div 16) % Radix,
              a.hi \div 524288>>)

SigLo(q) == BigLimb(q, 1) + (BigLimb(q, 2) % 2048) * Radix

SigHi(q) == (BigLimb(q, 2) \div 2048) + BigLimb(q, 3) * 16 + BigLimb(q, 4) * 524288

\* The float of sign, significand hi * 2^26 + lo <= 2^53 and exponent e; a
\* number of 2^1024 or more is inf.
Pack(neg, hi, lo, e) ==
    IF hi + (lo \div 67108864) = 134217728
    THEN (IF e + 1 > 971 THEN Inf(neg) ELSE Double(neg, 67108864, 0, e + 1))
    ELSE IF e > 971 THEN Inf(neg)
    ELSE Double(neg, hi + (lo \div 67108864), lo % 67108864, e)

\* 1 when a number between two floats goes to the upper one: it is past the
\* half (c > 0), or at the half (c = 0) with the lower significand odd.
RoundUp(c, lo) == IF c > 0 \/ (c = 0 /\ lo % 2 = 1) THEN 1 ELSE 0

\* The float nearest to n * 2^e, n of more than 53 bits, q being n without
\* its `drop` lowest bits.
RoundDrop(neg, n, e, drop, q) ==
    Pack(neg, SigHi(q),
         SigLo(q) + (IF BigBit(n, drop - 1) = 1
                     THEN RoundUp(IF BigLowZero(n, drop - 1) THEN 0 ELSE 1, BigLimb(q, 1))
                     ELSE 0),
         e + drop)

\* n * 2^e, n of 53 bits at most, as a float: n moved up by sh bits.
RoundExact(neg, n, e, sh) == Pack(neg, SigHi(BigShl(n, sh)), SigLo(BigShl(n, sh)), e - sh)

\* The float nearest to n * 2^e, for e >= -1074 (ties to the even
\* significand).
RoundBig(neg, n, e) ==
    IF n = <<>> THEN Zero(neg)
    ELSE IF BigBitLen(n) <= 53
    THEN RoundExact(neg, n, e, Min(53 - BigBitLen(n), e + 1074))
    ELSE RoundDrop(neg, n, e, BigBitLen(n) - 53, BigShr(n, BigBitLen(n) - 53))

RECURSIVE DivLoop(_, _, _, _, _, _, _, _)
\* The float of exponent e whose significand is a \div b rounded by the
\* remainder, for a < b * 2^(i+1), t being b * 2^i: the quotient bits from
\* bit i down are added to qhi * 2^26 + qlo.
DivLoop(neg, e, b, a, t, i, qhi, qlo) ==
    IF i < 0 THEN Pack(neg, qhi, qlo + RoundUp(BigCmp(BigShl(a, 1), b), qlo), e)
    ELSE IF BigCmp(a, t) >= 0
    THEN DivLoop(neg, e, b, BigSub(a, t), BigShr(t, 1), i - 1,
                 qhi + (IF i >= 26 THEN 2 ^ (i - 26) ELSE 0),
                 qlo + (IF i < 26 THEN 2 ^ i ELSE 0))
    ELSE DivLoop(neg, e, b, a, BigShr(t, 1), i - 1, qhi, qlo)

\* The float nearest to (a / b) * 2^e, for a / b < 2^53.
NearestDiv(neg, e, a, b) == DivLoop(neg, e, b, a, BigShl(b, 52), 52, 0, 0)

NearestT(neg, n, d, s, t) ==
    IF s + 1074 < t - 54 THEN Zero(neg)
    ELSE NearestDiv(neg, s - Min(t, s + 1074),
                    BigShl(n, Max(Min(t, s + 1074), 0)),
                    BigShl(d, Max(-Min(t, s + 1074), 0)))

NearestT0(neg, n, d, s, t0) ==
    NearestT(neg, n, d, s,
             IF BigCmp(BigShl(n, Max(t0, 0)), BigShl(d, 52 + Max(-t0, 0))) < 0
             THEN t0 + 1 ELSE t0)

\* The float nearest to (n / d) * 2^s, n and d whole numbers, d > 0: the
\* quotient is taken to 53 bits (fewer below 2^-1022) and rounded to the
\* nearest, ties to the even significand.
Nearest(neg, n, d, s) ==
    IF n = <<>> THEN Zero(neg)
    ELSE NearestT0(neg, n, d, s, 52 - (BigBitLen(n) - BigBitLen(d)))

\* -a
FNeg(a) == IF a.kind = "nan" THEN a ELSE [a EXCEPT !.neg = ~a.neg]

\* a + b of two numbers other than zero, na and nb being them in units of 2^e.
FAddAligned(aneg, bneg, na, nb, e) ==
    IF aneg = bneg THEN RoundBig(aneg, BigAdd(na, nb), e)
    ELSE IF BigCmp(na, nb) = 0 THEN Zero(FALSE)
    ELSE IF BigCmp(na, nb) > 0 THEN RoundBig(aneg, BigSub(na, nb), e)
    ELSE RoundBig(bneg, BigSub(nb, na), e)

\* a + b
FAdd(a, b) ==
    IF a.kind = "nan" \/ b.kind = "nan" THEN NaN
    ELSE IF a.kind = "inf"
    THEN (IF b.kind = "inf" /\ b.neg /= a.neg THEN NaN ELSE a)
    ELSE IF b.kind = "inf" THEN b
    ELSE IF IsZero(a) /\ IsZero(b) THEN Zero(a.neg /\ b.neg)
    ELSE IF IsZero(a) THEN b
    ELSE IF IsZero(b) THEN a
    ELSE IF a.e - b.e > 64 THEN a
    ELSE IF b.e - a.e > 64 THEN b
    ELSE FAddAligned(a.neg, b.neg,
                     BigShl(BigOfSig(a), a.e - Min(a.e, b.e)),
                     BigShl(BigOfSig(b), b.e - Min(a.e, b.e)),
                     Min(a.e, b.e))

\* a - b
FSub(a, b) == FAdd(a, FNeg(b))

\* p / 2^sh to the nearest whole number, ties to the even one.
BigRoundShr(p, sh) ==
    IF sh = 0 THEN p
    ELSE BigAdd(BigShr(p, sh),
                BigOfNat(IF BigBit(p, sh - 1) = 1
                         THEN RoundUp(IF BigLowZero(p, sh - 1) THEN 0 ELSE 1,
                                      BigBit(p, sh))
                         ELSE 0))

\* round(x, 2): the float nearest to x written with two decimals.
Round2(x) ==
    IF x.kind /= "num" \/ x.e >= 0 THEN x
    ELSE Nearest(x.neg, BigRoundShr(BigMulSmall(BigOfSig(x), 100, 0), -x.e),
                 <<100>>, 0)

\* The float nearest to n hundredths, n a whole number of any sign.
Cents(n) == Nearest(n < 0, BigOfNat(IF n < 0 THEN -n ELSE n), <<100>>, 0)

(***************************************************************************)
(* Parser: amounts, dates, deposits                                        *)
(***************************************************************************)
\* A digit string without the zeros it starts with.
StripLeadingZeros(ds) ==
    SubSeq(ds, CHOOSE i \in 1..(Len(ds) + 1) :
                   (i = Len(ds) + 1 \/ ds[i] /= "0") /\ \A j \in 1..(i - 1) : ds[j] = "0",
           Len(ds))

RECURSIVE SkipDigitPart(_, _)
\* A digit part of a float literal from position i, digits with single
\* underscores between them: the position after it (i when there is none).
SkipDigitPart(s, i) ==
    IF i <= Len(s) /\ IsDigit(s[i])
    THEN LET j == SkipDigits(s, i)
         IN  IF j + 1 <= Len(s) /\ s[j] = "_" /\ IsDigit(s[j + 1])
             THEN SkipDigitPart(s, j + 1)
             ELSE j
    ELSE i

\* int(s) of a string: <<value>>, or <<>> where int raises ValueError.
\*  The text is stripped and may carry a sign; single underscores
\* may stand between digits.
ParseInt(s0) ==
    LET s      == StripChars(s0, NumberSpace)
        signed == Len(s) >= 1 /\ s[1] \in {"+", "-"}
        body   == IF signed THEN Tail(s) ELSE s
        n      == ToNat(Replace(body, "_", <<>>))
    IN  IF body /= <<>> /\ SkipDigitPart(body, 1) = Len(body) + 1
        THEN <<IF signed /\ s[1] = "-" THEN -n ELSE n>>
        ELSE <<>>

\* The float nearest to digits * 10^k, a string of decimal digits that does
\* not start with "0".  A number of 10^310 or more is inf and one below
\* 10^-330 is zero whatever the digits.
FloatOfDigits(ds, k) ==
    IF ds = <<>> THEN Zero(FALSE)
    ELSE IF Len(ds) + k > 310 THEN PosInf
    ELSE IF Len(ds) + k < -330 THEN Zero(FALSE)
    ELSE IF k >= 0 THEN RoundBig(FALSE, BigMul(BigOfDigits(ds, 1, Len(ds)), BigPow10(k)), 0)
    ELSE Nearest(FALSE, BigOfDigits(ds, 1, Len(ds)), BigPow10(-k), 0)

\* int() of the exponent digits of a float literal, capped where the result
\* is zero or inf whatever the significand.
ExponentOf(ds) ==
    IF Len(StripLeadingZeros(ds)) > 9 THEN 10 ^ 9
    ELSE ToNat(StripLeadingZeros(ds))

\* The digits of body[i..j-1], the underscores left out.
DigitsOf(body, i, j) == Replace(SubSeq(body, i, j - 1), "_", <<>>)

\* The value of a float literal from the digits before and after the point
\* and the exponent; a literal needs a digit in one of the two.
FloatValue(int, frac, e) ==
    IF Len(int) + Len(frac) > 0
    THEN <<FloatOfDigits(StripLeadingZeros(int \o frac), e - Len(frac))>>
    ELSE <<>>

\* A float literal whose exponent digits start at c and stop before d: they
\* must be there and end the literal; body[c - 1] is the sign or the "e".
FloatExpEnd(body, a, b, c, d) ==
    IF d > c /\ d = Len(body) + 1
    THEN FloatValue(DigitsOf(body, 1, a), DigitsOf(body, a + 1, b),
                    (IF body[c - 1] = "-" THEN -1 ELSE 1)
                        * ExponentOf(DigitsOf(body, c, d)))
    ELSE <<>>

\* A float literal whose mantissa stops before b: the end of the literal, or
\* (e|E)[+|-]digits.
FloatExponent(body, a, b) ==
    IF b = Len(body) + 1
    THEN FloatValue(DigitsOf(body, 1, a), DigitsOf(body, a + 1, b), 0)
    ELSE IF body[b] \in {"e", "E"}
    THEN FloatExpEnd(body, a, b,
                     IF b + 1 <= Len(body) /\ body[b + 1] \in {"+", "-"}
                     THEN b + 2 ELSE b + 1,
                     SkipDigitPart(body,
                                   IF b + 1 <= Len(body)
                                      /\ body[b + 1] \in {"+", "-"}
                                   THEN b + 2 ELSE b + 1))
    ELSE <<>>

\* A float literal whose integer digits stop before a: a point and the
\* digits of the fraction may follow.
FloatFraction(body, a) ==
    FloatExponent(body, a,
                  IF a <= Len(body) /\ body[a] = "."
                  THEN SkipDigitPart(body, a + 1) ELSE a)

\* float(s) of an unsigned number [digits][.[digits]][(e|E)[+|-]digits]
FloatNumber(body) == FloatFraction(body, SkipDigitPart(body, 1))

\* float(s) of an unsigned literal, `word` being the literal in lower case:
\* inf, infinity and nan are read in either case.
FloatUnsigned(body, word) ==
    IF word = <<"i", "n", "f">>
       \/ word = <<"i", "n", "f", "i", "n", "i", "t", "y">>
    THEN <<PosInf>>
    ELSE IF word = <<"n", "a", "n">> THEN <<NaN>>
    ELSE FloatNumber(body)

\* The sign put on the value v of the unsigned literal.
FloatSigned(neg, v) ==
    IF v = <<>> THEN <<>> ELSE IF neg THEN <<FNeg(v[1])>> ELSE v

\* float(s) of a literal without the whitespace around it.
FloatStripped(s, signed) ==
    FloatSigned(signed /\ s[1] = "-",
                FloatUnsigned(IF signed THEN Tail(s) ELSE s,
                              IF signed
                              THEN [i \in 1..(Len(s) - 1) |-> Lower(s[i + 1])]
                              ELSE [i \in 1..Len(s) |-> Lower(s[i])]))

\* s starts with a sign
HasSign(s) == s /= <<>> /\ s[1] \in {"+", "-"}

\* float(s): <<value>>, or <<>> where float raises ValueError.  The literal
\* is stripped of whitespace and may carry a sign.
Float(s0) ==
    FloatStripped(StripChars(s0, NumberSpace), HasSign(StripChars(s0, NumberSpace)))

to_decimal(s0) ==
    LET s == Strip(s0)
    IN  IF Contains(s, ",") /\ Contains(s, ".")
        THEN Float(Replace(Replace(s, ".", <<>>), ",", <<".">>))
        ELSE Float(Replace(s, ",", <<".">>))

\* strptime(dmy, "%d/%m/%Y") returns: it raises for a day, month or year out
\* of range.
ValidDmy(dmy) ==
    LET d == ToNat(SubSeq(dmy, 1, 2))
        m == ToNat(SubSeq(dmy, 4, 5))
        y == ToNat(SubSeq(dmy, 7, 10))
    IN  y >= 1 /\ m \in 1..12 /\ d >= 1 /\ d <= DaysInMonth(y, m)

\* parse_date(dmy, hms): `today` is what utcnow().strftime("%Y-%m-%d") gives
\* in the except branch, the only place where the clock is read.
parse_date(dmy, hms, today) ==
    IF ValidDmy(dmy)
    THEN <<FormatDate(ToNat(SubSeq(dmy, 7, 10)), ToNat(SubSeq(dmy, 4, 5)),
                      ToNat(SubSeq(dmy, 1, 2))), hms>>
    ELSE <<today, hms>>

\* The record of the chunk takes its date from the clock: the chunk has no
\* Data field, or one strptime refuses.  The clock is read once then, and not
\* at all otherwise.
ReadsClock(chunk) ==
    LET m_data == DATA_RE(chunk)
    IN  m_data = <<>> \/ ~ValidDmy(m_data[1].g1)

\* The record extract_deposits_from_text builds from one chunk (or, in the
\* fallback, from the whole text) whose VALOR_RE match is m_val; `today` is
\* the day its reading of the clock gives.
DepositOf(chunk, m_val, source, today) ==
    LET m_user == USER_RE(chunk)
        m_data == DATA_RE(chunk)
        m_ref  == REF_RE(chunk)
    IN  [amount        |-> Head(to_decimal(m_val[1])),
         date_ymd      |-> IF m_data /= <<>>
                           THEN parse_date(m_data[1].g1, m_data[1].g2, today)[1]
                           ELSE today,
         created_at    |-> IF m_data /= <<>>
                           THEN Strip(m_data[1].g1 \o <<" ">> \o m_data[1].g2)
                           ELSE <<>>,
         user_code     |-> IF m_user /= <<>> THEN m_user[1] ELSE <<>>,
         referrer_code |-> IF m_ref /= <<>> THEN m_ref[1] ELSE <<>>,
         raw           |-> Strip(chunk),
         source        |-> source]

\* The record of a chunk, the clock giving the days `todays` one reading after
\* the other: the chunk takes the first of them if it reads the clock.
ChunkDeposit(chunk, source, todays) ==
    DepositOf(chunk, VALOR_RE(chunk), source,
              IF ReadsClock(chunk) THEN Head(todays) ELSE <<>>)

\* The chunk gives a record.
HasRecord(chunk) == chunk /= <<>> /\ VALOR_RE(chunk) /= <<>>

\* The loop over the chunks leaving at the first record it builds (a return
\* where the append belongs).
ChunkDeposits_first(parts, source, todays) ==
    IF \E i \in 1..Len(parts) : HasRecord(parts[i])
    THEN LET k == CHOOSE i \in 1..Len(parts) :
                     /\ HasRecord(parts[i])
                     /\ \A j \in 1..(i - 1) : ~HasRecord(parts[j])
         IN  <<ChunkDeposit(parts[k], source, todays)>>
    ELSE <<>>

RECURSIVE ChunkDeposits(_, _, _)
\* The loop over the chunks: empty chunks and chunks without a VALOR_RE match
\* are skipped, the others give one record each, in order.  Every chunk that
\* reads the clock reads it anew: `todays` are the days of those readings, in
\* the order made.
ChunkDeposits(parts, source, todays) ==
    IF parts = <<>> THEN <<>>
    ELSE LET chunk == Head(parts)
         IN  IF ~HasRecord(chunk)
             THEN ChunkDeposits(Tail(parts), source, todays)
             ELSE <<ChunkDeposit(chunk, source, todays)>>
                  \o ChunkDeposits(Tail(parts), source,
                                   IF ReadsClock(chunk) THEN Tail(todays)
                                   ELSE todays)

\* text.replace(NBSP, " ").strip()
Cleaned(text0) == Strip(Replace(text0, "NBSP", <<" ">>))

\* extract_deposits_from_text(text0, source), the clock giving the days
\* `todays` at the readings the call makes.
extract_deposits_from_text(text0, source, todays) ==
    IF text0 = <<>> THEN <<>>
    ELSE LET text     == Cleaned(text0)
             deposits == ChunkDeposits(BLOCK_SPLIT_RE(text), source, todays)
         IN  IF deposits = <<>> /\ VALOR_RE(text) /= <<>>
             THEN <<ChunkDeposit(text, source, todays)>>
             ELSE deposits

\* How many times extract_deposits_from_text(text0) reads the clock: once for
\* every record whose chunk has no date strptime accepts.
ClockReads(text0) ==
    IF text0 = <<>> THEN 0
    ELSE LET text  == Cleaned(text0)
             parts == BLOCK_SPLIT_RE(text)
         IN  IF \E i \in 1..Len(parts) : HasRecord(parts[i])
             THEN Cardinality({i \in 1..Len(parts) :
                                  HasRecord(parts[i]) /\ ReadsClock(parts[i])})
             ELSE IF VALOR_RE(text) /= <<>> /\ ReadsClock(text) THEN 1 ELSE 0

(***************************************************************************)
(* Inbound texts: the lines they are made of, and the texts                *)
(***************************************************************************)
LnMarker ==
    <<"MONEYBAG", " ", "N", "o", "v", "o", " ", "D", "E", "P", "O_ACUTE",
      "S", "I", "T", "O">>

LnMarkerLower ==
    <<"MONEYBAG", " ", "n", "o", "v", "o", " ", "d", "e", "p", "o_acute",
      "s", "i", "t", "o">>

LnUser555 ==
    <<"U", "s", "e", "r", ":", " ", "5", "5", "5">>

LnUser1 ==
    <<"U", "s", "e", "r", ":", " ", "1">>

LnValor50 ==
    <<"V", "a", "l", "o", "r", ":", " ", "R", "$", " ", "5", "0", ",", "0",
      "0">>

LnValor8 ==
    <<"V", "a", "l", "o", "r", ":", " ", "R", "$", " ", "8", ",", "0", "0">>

LnValor8Nbsp ==
    <<"V", "a", "l", "o", "r", ":", "NBSP", "R", "$", "NBSP", "8", ",", "0",
      "0">>

LnValorThousands ==
    <<"V", "a", "l", "o", "r", ":", " ", "R", "$", " ", "1", ".", "2", "3",
      "4", ",", "5", "6">>

LnValorNoCurrency ==
    <<"V", "a", "l", "o", "r", ":", " ", "8", ",", "0", "0">>

LnValorNoCents ==
    <<"V", "a", "l", "o", "r", ":", " ", "R", "$", " ", "5", "0">>

LnValorTight ==
    <<"v", "a", "l", "o", "r", ":", "R", "$", "8", ",", "0", "0">>

LnBonus ==
    <<"B", "o_circ", "n", "u", "s", ":", " ", "R", "$", " ", "5", ",", "0",
      "0">>

LnData10Jan ==
    <<"D", "a", "t", "a", ":", " ", "1", "0", "/", "0", "1", "/", "2", "0",
      "2", "4", " ", "1", "4", ":", "0", "0", ":", "0", "0">>

LnData31Jan ==
    <<"D", "a", "t", "a", ":", " ", "3", "1", "/", "0", "1", "/", "2", "0",
      "2", "4">>

LnData01Feb ==
    <<"D", "a", "t", "a", ":", " ", "0", "1", "/", "0", "2", "/", "2", "0",
      "2", "4">>

LnData31Dec ==
    <<"D", "a", "t", "a", ":", " ", "3", "1", "/", "1", "2", "/", "2", "0",
      "2", "3">>

LnData01Jan ==
    <<"D", "a", "t", "a", ":", " ", "0", "1", "/", "0", "1", "/", "2", "0",
      "2", "4">>

LnDataBad ==
    <<"D", "a", "t", "a", ":", " ", "3", "2", "/", "1", "3", "/", "2", "0",
      "2", "4">>

LnRef77 ==
    <<"I", "n", "d", "i", "c", "a", "d", "o", " ", "p", "o", "r", ":", " ",
      "7", "7">>

LnJunk ==
    <<"o", "i">>

\* The marker with a letter right after it
LnMarkerLetter ==
    <<"MONEYBAG", " ", "N", "o", "v", "o", " ", "D", "E", "P", "O_ACUTE",
      "S", "I", "T", "O", "e_circ">>

\* The field with a form feed and a vertical tab for its spaces
LnValor6FormFeed ==
    <<"V", "a", "l", "o", "r", ":", "FF", "R", "$", "VT", "6", ",", "0", "0">>

\* The marker with separators (U+001C to U+001F) for its spaces
LnMarkerSeparators ==
    <<"FS", "MONEYBAG", "GS", "N", "o", "v", "o", "RS", "US", "D", "E", "P",
      "O", "S", "I", "T", "O">>

LnData0999 ==
    <<"D", "a", "t", "a", ":", " ", "0", "1", "/", "0", "1", "/", "0", "9",
      "9", "9">>

\* The marker without its accent
LnMarkerPlain ==
    <<"MONEYBAG", " ", "N", "o", "v", "o", " ", "D", "E", "P", "O", "S", "I",
      "T", "O">>

LnValor1 ==
    <<"V", "a", "l", "o", "r", ":", " ", "R", "$", " ", "1", ",", "0", "0">>

LnValor2 ==
    <<"V", "a", "l", "o", "r", ":", " ", "R", "$", " ", "2", ",", "0", "0">>

\* A day February does not have
LnData31Feb ==
    <<"D", "a", "t", "a", ":", " ", "3", "1", "/", "0", "2", "/", "2", "0",
      "2", "4">>

NL == <<"\n">>

RECURSIVE JoinLines(_)
\* "\n".join(lines)
JoinLines(lines) ==
    IF lines = <<>> THEN <<>>
    ELSE IF Len(lines) = 1 THEN lines[1]
    ELSE lines[1] \o NL \o JoinLines(Tail(lines))

TxtEmpty == JoinLines(<<>>)

TxtJunk == JoinLines(<<LnJunk>>)

TxtScenario == JoinLines(<<LnMarker, LnUser555, LnValor50, LnData10Jan>>)

TxtTwoBlocks == JoinLines(<<LnMarker, LnValor8, LnData31Jan, LnMarkerLower, LnValor50, LnData01Feb>>)

TxtYearEnd == JoinLines(<<LnValor8, LnData31Dec>>)

TxtNewYear == JoinLines(<<LnValor50, LnData01Jan>>)

TxtNoDate == JoinLines(<<LnValor8Nbsp>>)

TxtNoValor == JoinLines(<<LnMarker, LnUser555, LnBonus>>)

TxtThousands == JoinLines(<<LnValorThousands>>)

TxtNoCurrency == JoinLines(<<LnValorNoCurrency>>)

TxtNoCents == JoinLines(<<LnValorNoCents>>)

TxtBadDate == JoinLines(<<LnValorTight, LnDataBad>>)

TxtMixed == JoinLines(<<LnMarker, LnUser1, LnMarker, LnValor8, LnRef77>>)

TxtPreamble == JoinLines(<<LnValor8, LnMarker, LnUser1, LnMarkerLower, LnValor50, LnData01Feb>>)

TxtMarkerLetter == JoinLines(<<LnMarkerLetter, LnValor8, LnMarkerLetter, LnValor50>>)

TxtYear999 == JoinLines(<<LnValor8, LnData0999>>)

\* One field between whitespace that str.strip() removes
TxtFormFeed == <<"FF">> \o LnValor6FormFeed \o <<"NEL", "LINE_SEPARATOR">>

TxtSeparators ==
    JoinLines(<<LnMarkerSeparators, LnValor8, LnMarkerSeparators, LnValor50>>)

\* Two blocks without a date: each takes its day from the clock
TxtTwoUndated ==
    JoinLines(<<LnMarkerPlain, LnValor1, LnMarkerPlain, LnValor2>>)

\* A block whose date strptime refuses, and one without a date
TxtFebThenUndated ==
    JoinLines(<<LnMarkerPlain, LnValor1, LnData31Feb, LnMarkerPlain, LnValor2>>)

Texts ==
    {TxtEmpty, TxtJunk, TxtScenario, TxtTwoBlocks, TxtYearEnd, TxtNewYear,
     TxtNoDate, TxtNoValor, TxtThousands, TxtNoCurrency, TxtNoCents,
     TxtBadDate, TxtMixed, TxtPreamble, TxtMarkerLetter, TxtYear999,
     TxtFormFeed, TxtSeparators, TxtTwoUndated, TxtFebThenUndated}

(***************************************************************************)
(* Configuration and bounds                                                *)
(***************************************************************************)
\* KEEP_MONTHS = int(os.getenv("KEEP_MONTHS", "6"))
KEEP_MONTHS == 6

\* raw_text[:200000] in insert_payment_manual
RAW_CAP == 200000

\* At most this many rows are ever inserted (both tables together).
MaxInserts == 2

\* The instants datetime.utcnow() takes, in order: year, month, day and the
\* second of the day.  The clock never runs backwards.
Instants ==
    <<[y |-> 2023, m |-> 12, d |-> 31, s |-> 0],
      [y |-> 2024, m |-> 1,  d |-> 1,  s |-> 0],
      [y |-> 2024, m |-> 7,  d |-> 31, s |-> 0],
      [y |-> 2024, m |-> 8,  d |-> 1,  s |-> 0]>>

VARIABLES
    payments,   \* table payments: a set of rows
    expenses,   \* table expenses: a set of rows
    pay_seq,    \* AUTOINCREMENT counter of payments (the last id given)
    exp_seq,    \* AUTOINCREMENT counter of expenses
    clock,      \* index in Instants of the current instant
    inserted,   \* history: <<table, id>> of every insert, in the order made
    reply,      \* what the last step returned or sent to the chat
    jobs,       \* the handlers in flight: what each holds and does next
    ADMIN_CHAT_ID   \* os.getenv("ADMIN_CHAT_ID", "").strip(), read at start

vars == <<payments, expenses, pay_seq, exp_seq, clock, inserted, reply, jobs, ADMIN_CHAT_ID>>

\* The tables and their counters, and the history of the inserts.
ledger == <<payments, expenses, pay_seq, exp_seq, inserted>>

(***************************************************************************)
(* Handlers in flight                                                      *)
(*                                                                         *)
(* The web server answers every request in a thread of its own, and the    *)
(* dispatcher runs the handler inside the request (workers=0), so handlers *)
(* overlap.  Every function of the store opens its own connection and      *)
(* no handler holds a transaction over two statements: what one handler    *)
(* does between two statements of another is seen by the second.  Nor is   *)
(* the clock read together with a statement: datetime.utcnow() returns,    *)
(* and the statement that uses the value runs later, after the write lock  *)
(* of the database is granted.  A step of the model is one reading of the  *)
(* clock or one statement on the database (one write transaction for       *)
(* cleanup_old_months) with the computation that leads to it, the last one *)
(* with the reply built from it.  A reading whose value is not used takes  *)
(* no step.                                                                *)
(*                                                                         *)
(* Bound on the schedules: two handlers overlap at most.  Their statements  *)
(* interleave in any order, and time passes between any two of them.  Of   *)
(* two handlers in flight the one that started earlier is in slot "first". *)
(***************************************************************************)
Slots == {"first", "second"}

\* No handler in the slot.
Idle == [op |-> "idle"]

Busy(t) == jobs[t].op /= "idle"

\* The slot a handler that starts now is in.
Free == IF Busy("first") THEN "second" ELSE "first"

\* A request can be taken: fewer than two handlers are in flight.
Receives == ~Busy("second")

\* The handler that starts goes on with `job` after this statement.
Suspend(job) == jobs' = [jobs EXCEPT ![Free] = job]

\* The handler of slot t goes on with `job` after this statement.
Proceed(t, job) == jobs' = [jobs EXCEPT ![t] = job]

\* The handler of slot t returns; the other one, if any, is then the one
\* that started earlier.
Return(t) ==
    jobs' = IF t = "first"
            THEN [first |-> jobs["second"], second |-> Idle]
            ELSE [jobs EXCEPT !["second"] = Idle]

(***************************************************************************)
(* Clock                                                                   *)
(***************************************************************************)
utcnow == Instants[clock]

\* now.strftime("%Y-%m-%d") for every instant, evaluated once.
DayAt ==
    [i \in 1..Len(Instants) |->
        FormatDate(Instants[i].y, Instants[i].m, Instants[i].d)]

\* datetime.utcnow().strftime("%Y-%m-%d")
Today == DayAt[clock]

\* datetime.utcnow().replace(microsecond=0).isoformat(): the year has four
\* digits.
IsoOf(now) ==
    Pad(now.y, 4) \o <<"-">> \o Pad(now.m, 2) \o <<"-">> \o Pad(now.d, 2)
          \o <<"T">> \o Pad(now.s \div 3600, 2) \o <<":">>
          \o Pad((now.s \div 60) % 60, 2) \o <<":">> \o Pad(now.s % 60, 2)

\* now.replace(microsecond=0).isoformat() for every instant, evaluated once.
IsoAt == [i \in 1..Len(Instants) |-> IsoOf(Instants[i])]

\* now_iso()
now_iso == IsoAt[clock]

(***************************************************************************)
(* Ledger store                                                            *)
(***************************************************************************)
\* float(amount) bound to a REAL column and read back: sqlite3 binds nan as
\* NULL, and -0.0 is stored as the integer 0 and comes back as 0.0.
SqlReal(amount) ==
    IF amount.kind = "nan" THEN NullAmount
    ELSE IF IsZero(amount) THEN Zero(FALSE)
    ELSE amount

\* The row INSERT INTO payments adds; id is the AUTOINCREMENT key.
PaymentRow(id, date, amount, created_at, user_code, referrer_code, raw_text, source, inserted_at) ==
    [id            |-> id,
     date          |-> date,
     amount        |-> SqlReal(amount),
     raw           |-> SubSeq(raw_text, 1, Min(Len(raw_text), RAW_CAP)),
     created_at    |-> created_at,
     source        |-> source,
     user_code     |-> user_code,
     referrer_code |-> referrer_code,
     inserted_at   |-> inserted_at]

\* insert_payment_manual as INSERT OR IGNORE on the payment's columns: a
\* payment already stored is not stored again.
insert_payment_dedup(tbl, id, date, amount, created_at, user_code, referrer_code, raw_text, source, inserted_at) ==
    LET row == PaymentRow(id, date, amount, created_at, user_code,
                          referrer_code, raw_text, source, inserted_at)
    IN  IF \E r \in tbl : /\ r.date = row.date
                          /\ r.amount = row.amount
                          /\ r.raw = row.raw
                          /\ r.source = row.source
        THEN tbl
        ELSE tbl \cup {row}

\* insert_payment_manual: the table after the INSERT, inserted_at being what
\* now_iso() returned when the arguments of the statement were evaluated.
\* There is no key but id.
insert_payment_manual(tbl, id, date, amount, created_at, user_code, referrer_code, raw_text, source, inserted_at) ==
    tbl \cup {PaymentRow(id, date, amount, created_at, user_code,
                         referrer_code, raw_text, source, inserted_at)}

\* insert_expense: the table after the INSERT, inserted_at being what
\* now_iso() returned when the arguments of the statement were evaluated.
insert_expense(tbl, id, date, amount, description, inserted_at) ==
    tbl \cup {[id |-> id, date |-> date, amount |-> SqlReal(amount),
               description |-> description, inserted_at |-> inserted_at]}

RECURSIVE SumAmounts(_)
\* The amounts of the rows added up as floats: SUM starts from 0.0 and adds
\* the amount of every row it scans, and the scan of a table without index
\* goes by ascending id.
SumAmounts(rows) ==
    IF rows = {} THEN Zero(FALSE)
    ELSE LET r == CHOOSE x \in rows : \A q \in rows : q.id <= x.id
         IN  FAdd(SumAmounts(rows \ {r}), r.amount)

\* The float a SUM returns: nan comes back as NULL.
SqlSumOf(total) == IF total.kind = "nan" THEN <<>> ELSE <<total>>

\* SELECT SUM(amount) ... : the rows whose amount is NULL are left out; the
\* result is NULL (<<>>) when no amount is left, and when the sum is nan
\* (inf and -inf added), which SQLite returns as NULL.
SqlSum(rows) ==
    IF \A r \in rows : r.amount = NullAmount THEN <<>>
    ELSE SqlSumOf(SumAmounts({r \in rows : r.amount /= NullAmount}))

\* WHERE date >= start AND date < end_
RowsBetween(tbl, start, end_) ==
    {r \in tbl : StrLeq(start, r.date) /\ StrLess(r.date, end_)}

\* float(c.fetchone()[0] or 0.0): None and a sum of zero give 0.0.
OrZero(total) == IF total = <<>> \/ IsZero(total[1]) THEN Zero(FALSE) ELSE total[1]

\* The years of the bounded runs.
Years == 2023..2025

\* month_range on every month of those years, evaluated once.
MonthRanges == [year \in Years, month \in 1..12 |-> month_range(year, month)]

\* SELECT SUM(amount) FROM <table> WHERE date >= start AND date < end, then
\* `or 0.0`, for the month_range of (year, month).
SumOfMonth(tbl, year, month) ==
    LET rng == MonthRanges[year, month]
    IN  OrZero(SqlSum(RowsBetween(tbl, rng[1], rng[2])))

sum_payments_for_month(year, month) == SumOfMonth(payments, year, month)

\* sum_expenses_for_month copied from sum_payments_for_month with the table
\* name left as it was.
sum_expenses_from_payments(year, month) == SumOfMonth(payments, year, month)

sum_expenses_for_month(year, month) == SumOfMonth(expenses, year, month)

\* cutoff_str of cleanup_old_months, run in month `month` of year `year`.
CutoffStr(year, month, keep_months) ==
    LET ym           == year * 12 + month - keep_months
        cutoff_year  == (ym - 1) \div 12
        cutoff_month == ((ym - 1) % 12) + 1
    IN  Pad(cutoff_year, 4) \o <<"-">> \o Pad(cutoff_month, 2)
        \o <<"-", "0", "1">>

\* DELETE FROM <table> WHERE date <= cutoff
DeleteOlder_inclusive(tbl, cutoff) == {r \in tbl : StrLess(cutoff, r.date)}

\* DELETE FROM <table> WHERE date < cutoff: the table after it.
DeleteOlder(tbl, cutoff) == {r \in tbl : ~StrLess(r.date, cutoff)}

\* ORDER BY inserted_at DESC LIMIT 1: SQL leaves the order of rows with equal
\* inserted_at open, so any row with the greatest inserted_at may come first.
LatestRows(tbl) ==
    {r \in tbl : \A q \in tbl : StrLeq(q.inserted_at, r.inserted_at)}

\* fetchone() of SELECT ... ORDER BY inserted_at DESC LIMIT 1 in
\* undo_last_entry: the rows it may return, <<>> standing for None.
LatestOf(tbl) ==
    IF tbl = {} THEN {<<>>}
    ELSE {<<[id |-> r.id, inserted_at |-> r.inserted_at]>> : r \in LatestRows(tbl)}

\* `target` of undo_last_entry taken from the last id AUTOINCREMENT handed
\* out (sqlite_sequence) rather than from the rows read.
undo_target_by_counter(p, e) ==
    IF pay_seq > 0 THEN <<"payments", pay_seq>>
    ELSE IF exp_seq > 0 THEN <<"expenses", exp_seq>>
    ELSE <<>>

\* `target` of undo_last_entry, from the rows p and e its two SELECTs
\* returned: <<table, id>>, or <<>> for None.
undo_target(p, e) ==
    IF p /= <<>> /\ e /= <<>>
    THEN (IF StrLeq(e[1].inserted_at, p[1].inserted_at)
          THEN <<"payments", p[1].id>> ELSE <<"expenses", e[1].id>>)
    ELSE IF p /= <<>> THEN <<"payments", p[1].id>>
    ELSE IF e /= <<>> THEN <<"expenses", e[1].id>>
    ELSE <<>>

\* The reply-keyboard buttons
BTN_PROFIT ==
    <<"CHART", " ", "L", "u", "c", "r", "o", " ", "d", "o", " ", "m",
      "e_circ", "s">>

BTN_LASTMONTHS ==
    <<"CALENDAR", " ", "U_ACUTE", "l", "t", "i", "m", "o", "s", " ", "m",
      "e", "s", "e", "s">>

BTN_ADD_EXP ==
    <<"PLUS", " ", "R", "e", "g", "i", "s", "t", "r", "a", "r", " ", "g",
      "a", "s", "t", "o">>

BTN_HELP == <<"INFO", "VS16", " ", "A", "j", "u", "d", "a">>

(***************************************************************************)
(* Inbound messages of the bounded runs, and the parser's results on them  *)
(***************************************************************************)
\* Chat messages: every text of the corpus that holds no deposit and three
\* that hold deposits.
ChatTexts ==
    {TxtEmpty, TxtJunk, TxtNoValor, TxtNoCurrency, TxtNoCents,
     TxtTwoBlocks, TxtYearEnd, TxtNoDate, TxtFormFeed, TxtTwoUndated}

\* The buttons of the reply keyboard, as the chat sends them.
Buttons == {BTN_PROFIT, BTN_LASTMONTHS, BTN_ADD_EXP, BTN_HELP}

\* Channel posts
ChannelTexts == {TxtEmpty, TxtJunk, TxtThousands}

\* Every text the parser is evaluated on.
AllTexts == Texts \cup ChatTexts \cup ChannelTexts \cup Buttons

\* em.text.strip() / post.text.strip() of every inbound message.
Stripped == [text \in AllTexts |-> Strip(text)]

\* The days n readings of the clock may give, one after the other: the clock
\* never runs backwards.
DaySeqs(n) ==
    {[i \in 1..n |-> DayAt[at[i]]] :
        at \in {f \in [1..n -> 1..Len(Instants)] :
                   \A i \in 1..(n - 1) : f[i] <= f[i + 1]}}

\* extract_deposits_from_text(text, source) where it reads the clock `reads`
\* times: what it returns (at) for the days the readings may give.
ParseOf(text, source, reads) ==
    [reads |-> reads,
     at    |-> [todays \in DaySeqs(reads) |->
                   extract_deposits_from_text(text, source, todays)]]

\* extract_deposits_from_text on every stripped message and source,
\* evaluated once.
Parsed ==
    [text \in {Stripped[t] : t \in AllTexts},
     source \in {"manual_text", "channel"} |->
        ParseOf(text, source, ClockReads(text))]

(***************************************************************************)
(* Commands and handlers                                                   *)
(***************************************************************************)
\* str.isdigit() for ASCII text
IsDigitStr(a) == a /= <<>> /\ \A i \in 1..Len(a) : IsDigit(a[i])

RECURSIVE JoinArgs(_)
\* " ".join(args)
JoinArgs(args) ==
    IF args = <<>> THEN <<>>
    ELSE IF Len(args) = 1 THEN args[1]
    ELSE args[1] \o <<" ">> \o JoinArgs(Tail(args))

\* _parse_month_year reads no clock: both arguments are numbers.
MonthYearGiven(args) ==
    Len(args) >= 2 /\ IsDigitStr(args[1]) /\ IsDigitStr(args[2])

\* _parse_month_year(args): <<m, y>>, or <<>> where it raises ValueError.
\* The clock is read where the arguments do not give month and year.
parse_month_year(args) ==
    LET given == MonthYearGiven(args)
        m     == IF given THEN ToNat(args[1]) ELSE utcnow.m
        y     == IF given THEN ToNat(args[2]) ELSE utcnow.y
    IN  IF m >= 1 /\ m <= 12 THEN <<m, y>> ELSE <<>>

\* Nothing is returned or sent.
NoReply == [kind |-> "none"]

\* _profit_text(m, y), from vendas and gastos as its two SELECTs returned
\* them: the three figures of the summary.
profit_text(m, y, vendas, gastos) ==
    [kind |-> "profit", m |-> m, y |-> y,
     vendas |-> vendas, gastos |-> gastos, lucro |-> FSub(vendas, gastos)]

\* The caller of _profit_text(m, y) up to _profit_text's first statement, or
\* up to the reading of the clock that gave m and y (now_read): the statement
\* is a step of its own then.
profit_begin(m, y, now_read) ==
    /\ reply' = NoReply
    /\ Suspend([op |-> "profit", m |-> m, y |-> y,
                vendas |-> IF now_read THEN <<>>
                           ELSE <<sum_payments_for_month(y, m)>>])
    /\ UNCHANGED <<ledger, clock, ADMIN_CHAT_ID>>

\* _profit_text, its first statement: sum_payments_for_month.
profit_vendas(t) ==
    /\ jobs[t].op = "profit"
    /\ jobs[t].vendas = <<>>
    /\ reply' = NoReply
    /\ Proceed(t, [jobs[t] EXCEPT
                     !.vendas = <<sum_payments_for_month(jobs[t].y, jobs[t].m)>>])
    /\ UNCHANGED <<ledger, clock, ADMIN_CHAT_ID>>

\* _profit_text from sum_expenses_for_month on, and the reply.
profit_gastos(t) ==
    /\ jobs[t].op = "profit"
    /\ jobs[t].vendas /= <<>>
    /\ reply' = profit_text(jobs[t].m, jobs[t].y, Head(jobs[t].vendas),
                            sum_expenses_for_month(jobs[t].y, jobs[t].m))
    /\ Return(t)
    /\ UNCHANGED <<ledger, clock, ADMIN_CHAT_ID>>

\* The month before month m of year y, as <<year, month>>.
month_before(y, m) == IF m = 1 THEN <<y - 1, 12>> ELSE <<y, m - 1>>

\* cmd_lastmonths and the BTN_LASTMONTHS shortcut up to the reading of the
\* clock: n lines are to come, from month m of year y backwards.
lastmonths_begin(n, y, m) ==
    /\ reply' = NoReply
    /\ Suspend([op |-> "lastmonths", left |-> n, y |-> y, m |-> m,
                v |-> <<>>, lines |-> <<>>])
    /\ UNCHANGED <<ledger, clock, ADMIN_CHAT_ID>>

\* The next statement of the loop: sum_expenses_for_month of the month whose
\* payments are summed (v), which ends a line, or sum_payments_for_month of
\* the month before.  The reply follows the last line.
lastmonths_next(t) ==
    LET job  == jobs[t]
        g    == sum_expenses_for_month(job.y, job.m)
        line == [m |-> job.m, y |-> job.y, v |-> Head(job.v), g |-> g,
                 l |-> FSub(Head(job.v), g)]
        prev == month_before(job.y, job.m)
    IN  /\ job.op = "lastmonths"
        /\ IF job.v = <<>> THEN
               /\ reply' = NoReply
               /\ Proceed(t, [job EXCEPT
                                !.v = <<sum_payments_for_month(job.y, job.m)>>])
           ELSE IF job.left = 1 THEN
               /\ reply' = [kind |-> "lastmonths",
                            lines |-> Append(job.lines, line)]
               /\ Return(t)
           ELSE
               /\ reply' = NoReply
               /\ Proceed(t, [job EXCEPT !.left = @ - 1, !.y = prev[1],
                                         !.m = prev[2], !.v = <<>>,
                                         !.lines = Append(@, line)])
        /\ UNCHANGED <<ledger, clock, ADMIN_CHAT_ID>>

RECURSIVE TotalOf(_)
\* `total` of _process_text_and_reply after the loop: 0.0 with the amount of
\* every deposit added, in their order.
TotalOf(deposits) ==
    IF deposits = <<>> THEN Zero(FALSE)
    ELSE FAdd(TotalOf(SubSeq(deposits, 1, Len(deposits) - 1)),
              deposits[Len(deposits)].amount)

\* The inserts a handler in flight has still to make.
Pending(job) ==
    IF job.op = "deposits" THEN Len(job.rest)
    ELSE IF job.op = "extract" THEN job.count
    ELSE IF job.op \in {"insert_payment", "insert_expense"} THEN 1
    ELSE 0

\* The inserts the handlers in flight have still to make.
PendingInserts == Pending(jobs["first"]) + Pending(jobs["second"])

\* What _process_text_and_reply sends after its loop.  A chat message
\* (reply=True) is answered in the chat.  For a channel post (reply=False)
\* nothing is sent to the channel: with ADMIN_CHAT_ID set a notice goes to
\* that chat, and where int(ADMIN_CHAT_ID) raises, handle_channel_post logs
\* the exception and sends nothing.
deposits_reply(source, count, total) ==
    IF source = "manual_text"
    THEN [kind |-> "deposits", source |-> source, count |-> count, total |-> total]
    ELSE IF ADMIN_CHAT_ID = <<>> \/ ParseInt(ADMIN_CHAT_ID) = <<>> THEN NoReply
    ELSE [kind |-> "admin_notice", chat |-> Head(ParseInt(ADMIN_CHAT_ID)),
          count |-> count, total |-> total]

\* The loop of _process_text_and_reply over `deposits`, before a turn: `at`
\* holds what now_iso() returned for the INSERT of the turn once it is read.
deposits_job(deposits, source, at) ==
    [op |-> "deposits", source |-> source, count |-> Len(deposits),
     rest |-> deposits, total |-> Zero(FALSE), at |-> at]

\* _process_text_and_reply(text, source) up to its first reading of the
\* clock, `parse` being what extract_deposits_from_text does on the text.  A
\* text without deposit reads none and writes nothing: the caller replies
\* `otherwise`.  Else the first reading is the one of the first chunk
\* without a date, in extract_deposits_from_text, or, where every chunk has
\* its date, now_iso() for the first INSERT.
process_parse(parse, source, otherwise) ==
    LET n == Len(parse.at[[i \in 1..parse.reads |-> Today]])
    IN  IF n = 0 THEN
            /\ reply' = otherwise
            /\ UNCHANGED <<ledger, clock, jobs, ADMIN_CHAT_ID>>
        ELSE
            /\ Len(inserted) + PendingInserts + n <= MaxInserts
            /\ reply' = NoReply
            /\ UNCHANGED <<ledger, clock, ADMIN_CHAT_ID>>
            /\ Suspend(IF parse.reads = 0
                       THEN deposits_job(parse.at[<<>>], source, <<now_iso>>)
                       ELSE IF parse.reads = 1
                       THEN deposits_job(parse.at[<<Today>>], source, <<>>)
                       ELSE [op |-> "extract", parse |-> parse,
                             source |-> source, count |-> n,
                             todays |-> <<Today>>])

\* _process_text_and_reply(text, source), up to its first reading of the
\* clock.
process_text_and_reply(text, source, otherwise) ==
    process_parse(Parsed[text, source], source, otherwise)

\* extract_deposits_from_text, its next reading of the clock: the day of one
\* more chunk without a date.  The loop over the deposits follows the last.
extract_next(t) ==
    LET job    == jobs[t]
        todays == Append(job.todays, Today)
    IN  /\ job.op = "extract"
        /\ reply' = NoReply
        /\ Proceed(t, IF Len(todays) < job.parse.reads
                      THEN [job EXCEPT !.todays = todays]
                      ELSE deposits_job(job.parse.at[todays], job.source, <<>>))
        /\ UNCHANGED <<ledger, clock, ADMIN_CHAT_ID>>

\* insert_payment_manual of the next deposit up to its INSERT: now_iso() is
\* evaluated with the arguments of c.execute, before the statement runs.
payment_now_iso(t) ==
    /\ jobs[t].op = "deposits"
    /\ jobs[t].at = <<>>
    /\ reply' = NoReply
    /\ Proceed(t, [jobs[t] EXCEPT !.at = <<now_iso>>])
    /\ UNCHANGED <<ledger, clock, ADMIN_CHAT_ID>>

\* The loop of _process_text_and_reply, one more turn: the INSERT of
\* insert_payment_manual for the next deposit, committed, and after the last
\* one the reply.
process_next_deposit(t) ==
    LET job   == jobs[t]
        d     == Head(job.rest)
        total == FAdd(job.total, d.amount)
    IN  /\ job.op = "deposits"
        /\ job.at /= <<>>
        /\ payments' = insert_payment_manual(payments, pay_seq + 1,
                           d.date_ymd, d.amount, d.created_at,
                           d.user_code, d.referrer_code, d.raw, d.source,
                           Head(job.at))
        /\ pay_seq' = pay_seq + 1
        /\ inserted' = Append(inserted, <<"payments", pay_seq + 1>>)
        /\ IF Tail(job.rest) = <<>>
           THEN /\ reply' = deposits_reply(job.source, job.count, total)
                /\ Return(t)
           ELSE /\ reply' = NoReply
                /\ Proceed(t, [job EXCEPT !.rest = Tail(@), !.total = total,
                                          !.at = <<>>])
        /\ UNCHANGED <<expenses, exp_seq, clock, ADMIN_CHAT_ID>>

\* handle_text: a chat message that is not a command.
handle_text(text0) ==
    LET text == Stripped[text0]
    IN  IF text0 = <<>> THEN
            /\ reply' = [kind |-> "menu"]
            /\ UNCHANGED <<ledger, clock, jobs, ADMIN_CHAT_ID>>
        ELSE IF text = BTN_PROFIT THEN profit_begin(utcnow.m, utcnow.y, TRUE)
        ELSE IF text = BTN_LASTMONTHS
             THEN lastmonths_begin(KEEP_MONTHS, utcnow.y, utcnow.m)
        ELSE IF text = BTN_ADD_EXP THEN
            /\ reply' = [kind |-> "usage"]
            /\ UNCHANGED <<ledger, clock, jobs, ADMIN_CHAT_ID>>
        ELSE IF text = BTN_HELP THEN
            /\ reply' = [kind |-> "menu"]
            /\ UNCHANGED <<ledger, clock, jobs, ADMIN_CHAT_ID>>
        ELSE process_text_and_reply(text, "manual_text", [kind |-> "menu"])

\* handle_channel_post: a post of a channel; nothing is answered in the channel.
handle_channel_post(text0) ==
    IF text0 = <<>> THEN
        /\ reply' = NoReply
        /\ UNCHANGED <<ledger, clock, jobs, ADMIN_CHAT_ID>>
    ELSE process_text_and_reply(Stripped[text0], "channel", NoReply)

\* insert_expense(date, amount, description) before its INSERT: `at` holds
\* what now_iso() returned once it is read.  `via` tells the caller:
\* cmd_addexpense ("cmd"), which replies, or a direct call ("store").
expense_job(date, amount, description, at, via) ==
    [op |-> "insert_expense", date |-> date, amount |-> amount,
     description |-> description, at |-> at, via |-> via]

\* insert_expense up to its INSERT: now_iso() is evaluated with the
\* arguments of c.execute, before the statement runs.
expense_now_iso(t) ==
    /\ jobs[t].op = "insert_expense"
    /\ jobs[t].at = <<>>
    /\ reply' = NoReply
    /\ Proceed(t, [jobs[t] EXCEPT !.at = <<now_iso>>])
    /\ UNCHANGED <<ledger, clock, ADMIN_CHAT_ID>>

\* The INSERT of insert_expense, committed, and the reply of cmd_addexpense.
save_expense(t) ==
    LET job == jobs[t]
    IN  /\ job.op = "insert_expense"
        /\ job.at /= <<>>
        /\ expenses' = insert_expense(expenses, exp_seq + 1, job.date,
                                      job.amount, job.description, Head(job.at))
        /\ exp_seq' = exp_seq + 1
        /\ inserted' = Append(inserted, <<"expenses", exp_seq + 1>>)
        /\ reply' = IF job.via = "cmd"
                    THEN [kind |-> "expense_saved", amount |-> job.amount,
                          desc |-> job.description]
                    ELSE NoReply
        /\ Return(t)
        /\ UNCHANGED <<payments, pay_seq, clock, ADMIN_CHAT_ID>>

\* context.args of /addexpense
ExpenseArgs ==
    {<<<<"1", "2", ".", "5", "0">>, <<"c", "o", "f", "f", "e", "e">>>>,
     <<<<"-", "5">>, <<"x">>>>,
     <<<<"a", "b", "c">>, <<"x">>>>,
     <<<<"1", "2", ".", "5", "0">>>>}

\* float() on every amount argument of the runs, evaluated once.
ExpenseFloat ==
    [a \in {Replace(args[1], ",", <<".">>) : args \in ExpenseArgs} |-> Float(a)]

\* float(args[0].replace(",", ".")) of cmd_addexpense
ArgFloat(arg) ==
    LET a == Replace(arg, ",", <<".">>)
    IN  IF a \in DOMAIN ExpenseFloat THEN ExpenseFloat[a] ELSE Float(a)

\* cmd_addexpense from the result of float() on: <<amount>>, or <<>> where
\* it raised ValueError, and the exception is the reply.  Else the clock is
\* read for the date of the expense.
expense_today(amount, desc) ==
    IF amount = <<>> THEN
        /\ reply' = [kind |-> "error"]
        /\ UNCHANGED <<ledger, clock, jobs, ADMIN_CHAT_ID>>
    ELSE
        /\ Len(inserted) + PendingInserts < MaxInserts
        /\ reply' = NoReply
        /\ Suspend(expense_job(Today, Head(amount), desc, <<>>, "cmd"))
        /\ UNCHANGED <<ledger, clock, ADMIN_CHAT_ID>>

\* cmd_addexpense up to the reading of the clock that gives the date of the
\* expense.
cmd_addexpense(args) ==
    IF Len(args) < 2 THEN
        /\ reply' = [kind |-> "usage"]
        /\ UNCHANGED <<ledger, clock, jobs, ADMIN_CHAT_ID>>
    ELSE expense_today(ArgFloat(args[1]), JoinArgs(Tail(args)))

\* cmd_profit
cmd_profit(args) ==
    IF parse_month_year(args) = <<>> THEN
        /\ reply' = [kind |-> "error"]
        /\ UNCHANGED <<ledger, clock, jobs, ADMIN_CHAT_ID>>
    ELSE profit_begin(parse_month_year(args)[1], parse_month_year(args)[2],
                      ~MonthYearGiven(args))

\* undo_last_entry, given the row it picked: the two tables after the DELETE.
DeleteRow(tbl, name, target) ==
    IF target[1] = name THEN {r \in tbl : r.id /= target[2]} ELSE tbl

\* cmd_undo up to the first statement of undo_last_entry, the SELECT of the
\* latest payment.
cmd_undo ==
    \E p \in LatestOf(payments) :
        /\ reply' = NoReply
        /\ Suspend([op |-> "undo", p |-> p])
        /\ UNCHANGED <<ledger, clock, ADMIN_CHAT_ID>>

\* undo_last_entry, its second statement: the SELECT of the latest expense
\* and the choice of the target.  With no target cmd_undo replies that
\* there is nothing to undo.
undo_select_expense(t) ==
    /\ jobs[t].op = "undo"
    /\ \E e \in LatestOf(expenses) :
          LET target == undo_target(jobs[t].p, e)
          IN  IF target = <<>>
              THEN /\ reply' = [kind |-> "undo", table |-> "none", id |-> 0]
                   /\ Return(t)
              ELSE /\ reply' = NoReply
                   /\ Proceed(t, [op |-> "undo_delete", target |-> target])
    /\ UNCHANGED <<ledger, clock, ADMIN_CHAT_ID>>

\* undo_last_entry, its third statement: DELETE ... WHERE id = ?, committed,
\* and the reply cmd_undo builds from the target.
undo_delete(t) ==
    /\ jobs[t].op = "undo_delete"
    /\ payments' = DeleteRow(payments, "payments", jobs[t].target)
    /\ expenses' = DeleteRow(expenses, "expenses", jobs[t].target)
    /\ reply' = [kind |-> "undo", table |-> jobs[t].target[1],
                 id |-> jobs[t].target[2]]
    /\ Return(t)
    /\ UNCHANGED <<pay_seq, exp_seq, clock, inserted, ADMIN_CHAT_ID>>

\* cleanup_old_months(keep_months) up to the reading of the clock, which
\* gives the cutoff; no handler of app.py calls it.
cleanup_old_months(keep_months) ==
    /\ reply' = NoReply
    /\ Suspend([op |-> "cleanup", y |-> utcnow.y, m |-> utcnow.m,
                cutoff_str |-> CutoffStr(utcnow.y, utcnow.m, keep_months)])
    /\ UNCHANGED <<ledger, clock, ADMIN_CHAT_ID>>

\* cleanup_old_months, its two DELETEs, one transaction.  It returns nothing:
\* `deleted` is the number of rows removed, y and m the month the call read
\* from the clock, and `before` holds cutoff and number of the call whose
\* DELETEs ran just before these, if any (<<>> otherwise).
cleanup_delete(t) ==
    LET job    == jobs[t]
        kept_p == DeleteOlder(payments, job.cutoff_str)
        kept_e == DeleteOlder(expenses, job.cutoff_str)
    IN  /\ job.op = "cleanup"
        /\ payments' = kept_p
        /\ expenses' = kept_e
        /\ reply' = [kind    |-> "cleanup",
                     y       |-> job.y,
                     m       |-> job.m,
                     cutoff  |-> job.cutoff_str,
                     deleted |-> Cardinality(payments \ kept_p)
                                 + Cardinality(expenses \ kept_e),
                     before  |-> IF reply.kind = "cleanup"
                                 THEN <<[cutoff  |-> reply.cutoff,
                                         deleted |-> reply.deleted]>>
                                 ELSE <<>>]
        /\ Return(t)
        /\ UNCHANGED <<pay_seq, exp_seq, clock, inserted, ADMIN_CHAT_ID>>

\* Time passes, between any two steps.
Tick ==
    /\ clock < Len(Instants)
    /\ clock' = clock + 1
    /\ reply' = NoReply
    /\ UNCHANGED <<ledger, jobs, ADMIN_CHAT_ID>>

(***************************************************************************)
(* The bot: the handlers the dispatcher registers                          *)
(***************************************************************************)
\* context.args of /profit
ProfitArgs ==
    {<<>>,
     <<<<"1">>, <<"2", "0", "2", "4">>>>,
     <<<<"1", "3">>, <<"2", "0", "2", "4">>>>,
     <<<<"7">>>>}

\* ADMIN_CHAT_ID as the environment gives it: unset (the default, ""), or
\* the id of a chat.
AdminChatIds == {<<>>, <<"9", "9">>}

Init ==
    /\ payments = {}
    /\ expenses = {}
    /\ pay_seq = 0
    /\ exp_seq = 0
    /\ clock = 1
    /\ inserted = <<>>
    /\ reply = NoReply
    /\ jobs = [t \in Slots |-> Idle]
    /\ ADMIN_CHAT_ID \in AdminChatIds

HandleText == Receives /\ \E text \in ChatTexts : handle_text(text)

HandleChannelPost == Receives /\ \E text \in ChannelTexts : handle_channel_post(text)

CmdAddExpense == Receives /\ \E args \in ExpenseArgs : cmd_addexpense(args)

CmdUndo == Receives /\ cmd_undo

\* A handler starts, a handler in flight takes its next step, or time
\* passes.
Next ==
    \/ HandleText
    \/ HandleChannelPost
    \/ CmdAddExpense
    \/ CmdUndo
    \/ \E t \in Slots : extract_next(t)
    \/ \E t \in Slots : payment_now_iso(t)
    \/ \E t \in Slots : process_next_deposit(t)
    \/ \E t \in Slots : expense_now_iso(t)
    \/ \E t \in Slots : save_expense(t)
    \/ \E t \in Slots : undo_select_expense(t)
    \/ \E t \in Slots : undo_delete(t)
    \/ Tick

Spec == Init /\ [][Next]_vars

(***************************************************************************)
(* The ledger store on its own: its functions called in any order          *)
(***************************************************************************)
PaymentDates ==
    {FormatDate(2023, 12, 31), FormatDate(2024, 1, 1), FormatDate(2024, 1, 31),
     FormatDate(2024, 2, 1), FormatDate(2024, 3, 20)}

ExpenseDates ==
    {FormatDate(2023, 12, 31), FormatDate(2024, 1, 1), FormatDate(2024, 3, 15)}

\* 100.00
PaymentAmounts == {Cents(10000)}

\* 12.50
ExpenseAmounts == {Cents(1250)}

\* insert_payment_manual(date, amount, created_at) with the defaults of the
\* other parameters, up to its INSERT: now_iso() is read.
StorePayment(date, amount) ==
    /\ Len(inserted) + PendingInserts < MaxInserts
    /\ reply' = NoReply
    /\ Suspend([op |-> "insert_payment", date |-> date, amount |-> amount,
                at |-> <<now_iso>>])
    /\ UNCHANGED <<ledger, clock, ADMIN_CHAT_ID>>

\* The INSERT of insert_payment_manual, committed; it returns None.
store_payment(t) ==
    LET job == jobs[t]
    IN  /\ job.op = "insert_payment"
        /\ payments' = insert_payment_manual(payments, pay_seq + 1, job.date,
                                             job.amount, <<>>, <<>>, <<>>, <<>>,
                                             "manual_text", Head(job.at))
        /\ pay_seq' = pay_seq + 1
        /\ inserted' = Append(inserted, <<"payments", pay_seq + 1>>)
        /\ reply' = NoReply
        /\ Return(t)
        /\ UNCHANGED <<expenses, exp_seq, clock, ADMIN_CHAT_ID>>

\* insert_expense(date, amount, description) up to its INSERT: now_iso() is
\* read.
StoreExpense(date, amount) ==
    /\ Len(inserted) + PendingInserts < MaxInserts
    /\ reply' = NoReply
    /\ Suspend(expense_job(date, amount, <<"c", "o", "f", "f", "e", "e">>,
                           <<now_iso>>, "store"))
    /\ UNCHANGED <<ledger, clock, ADMIN_CHAT_ID>>

InsertPayment == Receives /\ \E d \in PaymentDates, a \in PaymentAmounts : StorePayment(d, a)

InsertExpense == Receives /\ \E d \in ExpenseDates, a \in ExpenseAmounts : StoreExpense(d, a)

Cleanup == Receives /\ cleanup_old_months(KEEP_MONTHS)

Undo == Receives /\ cmd_undo

Pass == Tick

NextStore ==
    \/ InsertPayment
    \/ InsertExpense
    \/ \E t \in Slots : store_payment(t)
    \/ \E t \in Slots : save_expense(t)
    \/ Undo
    \/ \E t \in Slots : undo_select_expense(t)
    \/ \E t \in Slots : undo_delete(t)
    \/ Cleanup
    \/ \E t \in Slots : cleanup_delete(t)
    \/ Pass

\* Neither the store nor a query reads ADMIN_CHAT_ID: it is left unset.
InitStore == Init /\ ADMIN_CHAT_ID = <<>>

SpecStore == InitStore /\ [][NextStore]_vars

(***************************************************************************)
(* Calendar reading of a stored date, used to state the properties         *)
(***************************************************************************)
\* Year and month of a "YYYY-MM-DD" string, read as numbers.
YearOf(date) == ToNat(SubSeq(date, 1, 4))

MonthOf(date) == ToNat(SubSeq(date, 6, 7))

\* The rows of a table whose date lies in calendar month `month` of `year`.
RowsOfMonth(tbl, year, month) ==
    {r \in tbl : YearOf(r.date) = year /\ MonthOf(r.date) = month}

\* The (year, month) pairs the properties are checked for.
QueryMonths ==
    {<<2023, 11>>, <<2023, 12>>, <<2024, 1>>, <<2024, 2>>, <<2024, 3>>,
     <<2024, 4>>, <<2024, 7>>, <<2024, 8>>, <<2024, 12>>, <<2025, 1>>}

\* How many whole calendar months a date lies before month m of year y.
MonthsBefore(date, y, m) ==
    (y * 12 + m) - (YearOf(date) * 12 + MonthOf(date))

(***************************************************************************)
(* C1  For every ledger state and every (year, month), the month's sum of  *)
(* payments is the sum of exactly the payments whose date lies in that     *)
(* calendar month (December's range ends at January of the next year): a   *)
(* payment of the last day of a month and one of the first day of the next *)
(* are never counted together, every row falls in the range of exactly one *)
(* month, and inserted_at plays no part.                                   *)
(***************************************************************************)
C1_MonthBucket ==
    /\ \A ym \in QueryMonths :
          sum_payments_for_month(ym[1], ym[2])
              = SumAmounts(RowsOfMonth(payments, ym[1], ym[2]))
    /\ \A r \in payments :
          Cardinality({ym \in QueryMonths :
                          r \in RowsBetween(payments,
                                            month_range(ym[1], ym[2])[1],
                                            month_range(ym[1], ym[2])[2])}) = 1

\* Payments on 2024-01-31 and on 2024-02-01, and one on 2023-12-31: each month
\* counts its own only.
C1_Witness ==
    \E p \in payments, q \in payments :
        /\ p.date = FormatDate(2024, 1, 31)
        /\ q.date = FormatDate(2024, 2, 1)
        /\ sum_payments_for_month(2024, 1) = p.amount
        /\ sum_payments_for_month(2024, 2) = q.amount
        /\ p.inserted_at = q.inserted_at

(***************************************************************************)
(* C2  After any sequence of inserts, undos and prunes, the profit summary *)
(* of a month reports vendas = the sum of the payments dated in the month, *)
(* gastos = the sum of the expenses dated in it, lucro = vendas - gastos,  *)
(* and 0 for a side with no rows.                                          *)
(***************************************************************************)
\* The summary of a profit call whose two sums are read from this ledger.
ProfitNow(m, y) ==
    profit_text(m, y, sum_payments_for_month(y, m), sum_expenses_for_month(y, m))

C2_Profit ==
    \A ym \in QueryMonths :
        LET p == ProfitNow(ym[2], ym[1])
        IN  /\ p.vendas = SumAmounts(RowsOfMonth(payments, ym[1], ym[2]))
            /\ p.gastos = SumAmounts(RowsOfMonth(expenses, ym[1], ym[2]))
            /\ p.lucro = FSub(p.vendas, p.gastos)
            /\ RowsOfMonth(payments, ym[1], ym[2]) = {} => p.vendas = Zero(FALSE)
            /\ RowsOfMonth(expenses, ym[1], ym[2]) = {} => p.gastos = Zero(FALSE)

\* Expense 12.50 on 2024-03-15 and payment 100.00 on 2024-03-20: 3/2024 reports
\* 100.00, 12.50 and 87.50; 4/2024, which has no rows, reports zeros.
C2_Witness ==
    /\ \E e \in expenses : e.date = FormatDate(2024, 3, 15) /\ e.amount = Cents(1250)
    /\ \E p \in payments : p.date = FormatDate(2024, 3, 20) /\ p.amount = Cents(10000)
    /\ ProfitNow(3, 2024).vendas = Cents(10000)
    /\ ProfitNow(3, 2024).gastos = Cents(1250)
    /\ ProfitNow(3, 2024).lucro = Cents(8750)
    /\ ProfitNow(4, 2024).vendas = Zero(FALSE)
    /\ ProfitNow(4, 2024).gastos = Zero(FALSE)

(***************************************************************************)
(* C3  Inserting the same payment twice leaves one row for it.  The table  *)
(* has no external-id column and insert_payment_manual no such parameter,  *)
(* so a payment's natural key is all the caller passes: two rows never     *)
(* agree on every column but id and inserted_at.                           *)
(***************************************************************************)
SamePayment(p, q) ==
    /\ p.date = q.date
    /\ p.amount = q.amount
    /\ p.raw = q.raw
    /\ p.created_at = q.created_at
    /\ p.source = q.source
    /\ p.user_code = q.user_code
    /\ p.referrer_code = q.referrer_code

C3_OneRowPerPayment ==
    \A p \in payments, q \in payments : SamePayment(p, q) => p.id = q.id

(***************************************************************************)
(* C4  A text that holds deposits is always inserted: in every ledger      *)
(* state, every turn of the insert loop of _process_text_and_reply adds    *)
(* one new payments row, the next record the parser returned, and the sum  *)
(* of the month the deposit is dated in grows by its amount; the reply     *)
(* after the last insert counts every record.  So the same text processed  *)
(* twice adds its rows twice.                                              *)
(***************************************************************************)
\* The parser may return `deposits` according to `parse`: it does for some
\* course the clock may take over its readings.
Returns(parse, deposits) ==
    \E todays \in DOMAIN parse.at : parse.at[todays] = deposits

\* The texts of `texts` that hold a deposit when they arrive from `source`.
DepositTexts(texts, source) ==
    {text \in texts : ~Returns(Parsed[Stripped[text], source], <<>>)}

\* The texts that hold a deposit, with the source they may arrive from.
DepositInputs ==
    {<<text, "manual_text">> : text \in DepositTexts(ChatTexts, "manual_text")}
        \cup {<<text, "channel">> : text \in DepositTexts(ChannelTexts, "channel")}

\* The row a deposit record is stored as.
StoresDeposit(r, d) ==
    /\ r.amount = d.amount
    /\ r.date = d.date_ymd
    /\ r.raw = d.raw
    /\ r.source = d.source
    /\ r.created_at = d.created_at
    /\ r.user_code = d.user_code
    /\ r.referrer_code = d.referrer_code

\* This step adds one payments row, the deposit d under the next id, to the
\* rows there are, and the sum of the deposit's month grows by its amount.
AddsDeposit(d) ==
    /\ payments \subseteq payments'
    /\ Cardinality(payments') = Cardinality(payments) + 1
    /\ \E r \in payments' \ payments : r.id = pay_seq + 1 /\ StoresDeposit(r, d)
    /\ SumOfMonth(payments', YearOf(d.date_ymd), MonthOf(d.date_ymd))
          = FAdd(SumOfMonth(payments, YearOf(d.date_ymd), MonthOf(d.date_ymd)),
                 d.amount)

\* This step is the first one of the handler that received the text in[1]
\* from the source in[2].
Receiving(in) ==
    IF in[2] = "channel" THEN handle_channel_post(in[1]) ELSE handle_text(in[1])

\* What this step sends after the last insert of n deposits from `source`:
\* a chat message is answered, and whatever is sent counts every record.
CountsEvery(source, n) ==
    /\ source = "manual_text" => reply'.kind = "deposits"
    /\ reply'.kind /= "none" => reply'.count = n

\* The handler of slot t is in the insert loop with every record the parser
\* returned still to insert, n of them: `parse` is what the parser does on
\* the text the handler received from `source`.
LoopOver(t, parse, source, n) ==
    /\ jobs'[t].op = "deposits"
    /\ Returns(parse, jobs'[t].rest)
    /\ Len(jobs'[t].rest) = n
    /\ jobs'[t].count = n
    /\ jobs'[t].source = source

\* The handler of slot t is in the parser, which will return n records.
ParsingOf(t, parse, source, n) ==
    /\ jobs'[t].op = "extract"
    /\ jobs'[t].parse = parse
    /\ jobs'[t].source = source
    /\ jobs'[t].count = n
    /\ \A todays \in DOMAIN parse.at : Len(parse.at[todays]) = n

C4_TextAlwaysInserts ==
    [][/\ \A in \in DepositInputs :
             Receiving(in)
                => /\ UNCHANGED <<payments, expenses>>
                   /\ \E n \in 1..MaxInserts :
                         \/ LoopOver(Free, Parsed[Stripped[in[1]], in[2]], in[2], n)
                         \/ ParsingOf(Free, Parsed[Stripped[in[1]], in[2]], in[2], n)
       /\ \A t \in Slots :
             extract_next(t)
                => /\ UNCHANGED <<payments, expenses>>
                   /\ \/ LoopOver(t, jobs[t].parse, jobs[t].source, jobs[t].count)
                      \/ ParsingOf(t, jobs[t].parse, jobs[t].source, jobs[t].count)
       /\ \A t \in Slots :
             payment_now_iso(t)
                => /\ UNCHANGED <<payments, expenses>>
                   /\ jobs'[t].rest = jobs[t].rest
                   /\ jobs'[t].count = jobs[t].count
       /\ \A t \in Slots :
             process_next_deposit(t)
                => /\ AddsDeposit(Head(jobs[t].rest))
                   /\ Len(jobs[t].rest) = 1
                         => CountsEvery(jobs[t].source, jobs[t].count)
                   /\ Len(jobs[t].rest) > 1
                         => /\ jobs'[t].rest = Tail(jobs[t].rest)
                            /\ jobs'[t].count = jobs[t].count]_vars

\* The same one-deposit text was processed twice within one second: two rows
\* that differ in id only, and the month's sum is twice the amount.
C4_Witness ==
    \E p \in payments, q \in payments :
        /\ p.id /= q.id
        /\ SamePayment(p, q)
        /\ p.inserted_at = q.inserted_at
        /\ sum_payments_for_month(YearOf(p.date), MonthOf(p.date))
              = FAdd(p.amount, q.amount)
        /\ reply.kind = "deposits"


(***************************************************************************)
(* C5  Undo deletes exactly one row, the row created by the most recent    *)
(* insert that is still in either table, also when several inserts got the *)
(* same inserted_at second; that row is the one reported and every other   *)
(* row of both tables is unchanged.  The undos meant are those no other    *)
(* handler wrote in between: what they read is what the ledger holds.      *)
(***************************************************************************)
\* This step is the second or the third statement of the undo of slot t.
UndoStep(t) == undo_select_expense(t) \/ undo_delete(t)

\* The row <<table, id>> names is in its table.
Present(entry) ==
    IF entry[1] = "payments" THEN \E r \in payments : r.id = entry[2]
    ELSE \E r \in expenses : r.id = entry[2]

\* The most recent insert whose row is still there.
LastPresent ==
    inserted[CHOOSE i \in 1..Len(inserted) :
                /\ Present(inserted[i])
                /\ \A j \in (i + 1)..Len(inserted) : ~Present(inserted[j])]

\* What undo_last_entry may pick when its two SELECTs read this ledger.
UndoPicks ==
    {undo_target(p, e) : p \in LatestOf(payments), e \in LatestOf(expenses)}

C5_UndoMostRecentInsert ==
    [][\A t \in Slots :
          (/\ UndoStep(t)
           /\ reply'.kind = "undo"
           /\ payments /= {} \/ expenses /= {}
           /\ jobs[t].op = "undo" => jobs[t].p \in LatestOf(payments)
           /\ jobs[t].op = "undo_delete" => jobs[t].target \in UndoPicks)
             => /\ reply'.table = LastPresent[1]
                /\ reply'.id = LastPresent[2]
                /\ payments' = DeleteRow(payments, "payments", LastPresent)
                /\ expenses' = DeleteRow(expenses, "expenses", LastPresent)
                /\ Cardinality(payments') + Cardinality(expenses')
                      = Cardinality(payments) + Cardinality(expenses) - 1]_vars

(***************************************************************************)
(* C6  Undo on a ledger whose two tables are empty reports ("none", 0) and *)
(* leaves both tables as they are, also when earlier undos or prunes are   *)
(* what emptied them: on such a ledger an undo that starts reads no        *)
(* payment, and one that has read no payment answers ("none", 0); neither  *)
(* step writes.                                                            *)
(***************************************************************************)
C6_UndoOnEmpty ==
    [][(payments = {} /\ expenses = {})
          => /\ (jobs[Free].op = "idle" /\ jobs'[Free].op = "undo")
                   => /\ jobs'[Free].p = <<>>
                      /\ payments' = {}
                      /\ expenses' = {}
             /\ \A t \in Slots :
                   (undo_select_expense(t) /\ jobs[t].p = <<>>)
                      => /\ reply'.kind = "undo"
                         /\ reply'.table = "none"
                         /\ reply'.id = 0
                         /\ payments' = {}
                         /\ expenses' = {}]_vars

\* Undo answered "nothing to undo" on a ledger that rows had been inserted in.
C6_Witness ==
    /\ reply.kind = "undo"
    /\ reply.table = "none"
    /\ reply.id = 0
    /\ inserted /= <<>>
    /\ payments = {}
    /\ expenses = {}

(***************************************************************************)
(* C7  A prune with keep_months = 6 deletes from both tables a record      *)
(* dated in the month exactly 6 months before the current month and keeps  *)
(* a record dated in the month exactly 5 months before it.                 *)
(***************************************************************************)
C7_PruneSixthMonth ==
    [][reply'.kind = "cleanup"
          => /\ \A r \in payments :
                  /\ MonthsBefore(r.date, reply'.y, reply'.m) = KEEP_MONTHS
                        => r \notin payments'
                  /\ MonthsBefore(r.date, reply'.y, reply'.m) = KEEP_MONTHS - 1
                        => r \in payments'
             /\ \A r \in expenses :
                  /\ MonthsBefore(r.date, reply'.y, reply'.m) = KEEP_MONTHS
                        => r \notin expenses'
                  /\ MonthsBefore(r.date, reply'.y, reply'.m) = KEEP_MONTHS - 1
                        => r \in expenses']_vars

(***************************************************************************)
(* C8  Right after a successful ingestion of payments the retention pruner *)
(* has run: neither table holds a row dated before the cutoff of           *)
(* KEEP_MONTHS.                                                            *)
(***************************************************************************)
\* The retention cutoff of the current month.
Cutoff == CutoffStr(utcnow.y, utcnow.m, KEEP_MONTHS)

C8_PrunedAfterIngestion ==
    reply.kind = "deposits"
        => /\ \A r \in payments : ~StrLess(r.date, Cutoff)
           /\ \A r \in expenses : ~StrLess(r.date, Cutoff)

HasValorField(t) ==
    \E i \in 1..Len(t) :
      /\ MatchLitCI(t, i, <<"V", "a", "l", "o", "r", ":">>)
      /\ \E b \in (i + 6)..Len(t) :
           /\ \A k \in (i + 6)..(b - 1) : IsSpace(t[k])
           /\ MatchLitCI(t, b, <<"R", "$">>)
           /\ \E c \in (b + 2)..Len(t) :
                /\ \A k \in (b + 2)..(c - 1) : IsSpace(t[k])
                /\ \E d \in (c + 1)..Len(t) :
                     /\ \A k \in c..(d - 1) : IsDigit(t[k])
                     /\ t[d] \in {".", ","}
                     /\ DigitsAt(t, d + 1, 2)

\* The corpus texts without such a field.
NoValorTexts == {t \in Texts : ~HasValorField(t)}

\* The parser on every such text, from either source; it reads no clock.
ParsedNoValor ==
    \A t \in NoValorTexts : \A source \in {"manual_text", "channel"} :
        /\ Parsed[Stripped[t], source].reads = 0
        /\ Parsed[Stripped[t], source].at[<<>>] = <<>>

\* The handling of such a text is one step that changes nothing of the
\* ledger and leaves no handler in flight that could.
C10_NoValorNoInsert ==
    [][/\ ParsedNoValor
       /\ \A t \in NoValorTexts \cap ChatTexts :
             handle_text(t)
                => UNCHANGED <<payments, expenses, pay_seq, exp_seq, inserted, jobs>>
       /\ \A t \in NoValorTexts \cap ChannelTexts :
             handle_channel_post(t)
                => UNCHANGED <<payments, expenses, pay_seq, exp_seq, inserted, jobs>>]_vars

\* A text with a deposit marker and an amount that no "Valor:" labels is in
\* the corpus, and a text without a field was answered with the menu while
\* the ledger held a payment.
C10_Witness ==
    /\ TxtNoValor \in NoValorTexts \cap ChatTexts
    /\ BLOCK_SPLIT_RE(TxtNoValor) /= <<TxtNoValor>>
    /\ reply.kind = "menu"
    /\ payments /= {}

(***************************************************************************)
(* C11  The parser emits exactly one record for every chunk, of the text   *)
(* split at the deposit markers, that holds a Valor field, in the order of *)
(* the chunks, and none for the other chunks; when no chunk gave a record  *)
(* the whole text gives at most one.  Two marker blocks with a Valor field *)
(* give two records in order, one deposit without a marker gives one.      *)
(***************************************************************************)
\* text.replace(NBSP, " ").strip(), the text the chunks are cut from.
Normalized(text) == Strip(Replace(text, "NBSP", <<" ">>))

\* The chunks of a text that hold a Valor field, in document order.
ValorChunks(text) == SelectSeq(BLOCK_SPLIT_RE(Normalized(text)), HasValorField)

\* The rule, for one text and the records the parser returned for it.
OneRecordPerValorChunk(text, records) ==
    LET chunks == ValorChunks(text)
    IN  /\ Len(records) = Len(chunks)
        /\ \A i \in 1..Len(chunks) : records[i].raw = Strip(chunks[i])
        /\ chunks = <<>> => Len(records) <= 1

\* ... for every text of the corpus, from either source, whatever the days
\* of the readings of the clock.
ChunkRule ==
    \A t \in Texts : \A source \in {"manual_text", "channel"} :
        \A todays \in DOMAIN Parsed[Stripped[t], source].at :
            OneRecordPerValorChunk(t, Parsed[Stripped[t], source].at[todays])

\* The texts named in the rule, and what the handlers report for any text.
C11_OneRecordPerChunk ==
    /\ ChunkRule
    /\ Len(Parsed[Stripped[TxtTwoBlocks], "manual_text"].at[<<>>]) = 2
    /\ Len(Parsed[Stripped[TxtYearEnd], "manual_text"].at[<<>>]) = 1
    /\ reply.kind \in {"deposits", "admin_notice"}
          => \E t \in ChatTexts \cup ChannelTexts :
                /\ reply.count = Len(ValorChunks(t))
                /\ reply.count >= 1

\* The two-block text was handled: two records, the first block's before the
\* second's; and the corpus holds a text whose middle block has no Valor field.
C11_Witness ==
    /\ reply.kind = "deposits"
    /\ reply.count = 2
    /\ \E p \in payments, q \in payments :
          /\ q.id = p.id + 1
          /\ q.id = pay_seq
          /\ p.amount = Cents(800) /\ p.date = FormatDate(2024, 1, 31)
          /\ q.amount = Cents(5000) /\ q.date = FormatDate(2024, 2, 1)
    /\ Len(BLOCK_SPLIT_RE(Normalized(TxtPreamble))) = 3
    /\ Len(ValorChunks(TxtPreamble)) = 2

(***************************************************************************)
(* C14  In every reachable ledger every payments row and every expenses    *)
(* row has amount >= 0, whatever deposit texts and /addexpense commands    *)
(* (with any amount the command accepts) produced it.                      *)
(***************************************************************************)
C14_AmountsNonNegative ==
    /\ \A p \in payments : NonNegative(p.amount)
    /\ \A e \in expenses : NonNegative(e.amount)

(***************************************************************************)
(* C16  The amount of a parsed deposit is the value of the complete amount *)
(* written after "Valor: R$" in its chunk, in either separator convention: *)
(* "1.234,56" gives 1234.56 and "8,00" gives 8.00.                         *)
(***************************************************************************)
\* The characters an amount is written with.
IsAmountChar(c) == IsDigit(c) \/ c \in {".", ","}

\* Where the amount of the first "Valor: R$" field of t starts.
AmountStart(t) ==
    CHOOSE c \in 1..Len(t) :
        /\ IsDigit(t[c])
        /\ \E i \in 1..c :
              /\ MatchLitCI(t, i, <<"V", "a", "l", "o", "r", ":">>)
              /\ MatchLitCI(t, SkipSpaces(t, i + 6), <<"R", "$">>)
              /\ c = SkipSpaces(t, SkipSpaces(t, i + 6) + 2)
              /\ \A k \in 1..(i - 1) : ValorAt(t, k) = <<>>

\* The complete amount written there: the longest run of digits, points and
\* commas.
WrittenAmount(t) ==
    LET c == AmountStart(t)
        e == CHOOSE j \in c..Len(t) :
                /\ \A k \in c..j : IsAmountChar(t[k])
                /\ j = Len(t) \/ ~IsAmountChar(t[j + 1])
    IN  SubSeq(t, c, e)

C16_CompleteAmount ==
    \A p \in payments :
        HasValorField(p.raw) => <<p.amount>> = to_decimal(WrittenAmount(p.raw))

(***************************************************************************)
(* Queries: listing, CSV export, last months, dashboard                    *)
(***************************************************************************)
\* PAGE_SIZE = int(os.getenv("PAGE_SIZE", "10"))
PAGE_SIZE == 10

\* _date_from_mm_yyyy(m, y): f"{y:04d}-{m:02d}-01"
date_from_mm_yyyy(m, y) ==
    Pad(y, 4) \o <<"-">> \o Pad(m, 2) \o <<"-", "0", "1">>

\* _month_after(m, y)
month_after(m, y) == IF m = 12 THEN <<1, y + 1>> ELSE <<m + 1, y>>

\* f"{m:02d}/{y}"
MonthLabel(m, y) == Pad(m, 2) \o <<"/">> \o Str(y)

\* all(a.isdigit() for a in args[:n]) once len(args) >= n
AllDigits(args, n) == Len(args) >= n /\ \A i \in 1..n : IsDigitStr(args[i])

\* start, end and label of one month, as the last two branches of
\* _range_from_args build them.
MonthSpan(m, y) ==
    [start |-> date_from_mm_yyyy(m, y),
     end   |-> date_from_mm_yyyy(month_after(m, y)[1], month_after(m, y)[2]),
     label |-> MonthLabel(m, y)]

\* _range_from_args(args) takes the month from the clock: the arguments give
\* none.  (It reads the clock in every call, and uses it in this one.)
RangeReadsClock(args) == ~AllDigits(args, 4) /\ ~AllDigits(args, 2)

\* _range_from_args(args): no branch looks at the value of a month.
range_from_args(args) ==
    IF AllDigits(args, 4) THEN
        LET m1 == ToNat(args[1])
            y1 == ToNat(args[2])
            m2 == ToNat(args[3])
            y2 == ToNat(args[4])
        IN  [start |-> date_from_mm_yyyy(m1, y1),
             end   |-> date_from_mm_yyyy(month_after(m2, y2)[1],
                                         month_after(m2, y2)[2]),
             label |-> MonthLabel(m1, y1) \o <<"EN_DASH">> \o MonthLabel(m2, y2)]
    ELSE IF AllDigits(args, 2) THEN MonthSpan(ToNat(args[1]), ToNat(args[2]))
    ELSE MonthSpan(utcnow.m, utcnow.y)

\* ORDER BY date, inserted_at: rows equal in both columns come out in the
\* order of their rowid, which is how SQLite scans the table.
RowBefore(a, b) ==
    \/ StrLess(a.date, b.date)
    \/ /\ a.date = b.date
       /\ \/ StrLess(a.inserted_at, b.inserted_at)
          \/ a.inserted_at = b.inserted_at /\ a.id < b.id

RECURSIVE OrderBy(_)
OrderBy(rows) ==
    IF rows = {} THEN <<>>
    ELSE LET first == CHOOSE r \in rows : \A q \in rows \ {r} : RowBefore(r, q)
         IN  <<first>> \o OrderBy(rows \ {first})

\* fetch_entries_between(start_date, end_date), its first SELECT: the
\* payments of the range.
fetch_payments_between(start_date, end_date) ==
    OrderBy(RowsBetween(payments, start_date, end_date))

\* fetch_entries_between(start_date, end_date), its second SELECT: the
\* expenses of the range.
fetch_expenses_between(start_date, end_date) ==
    OrderBy(RowsBetween(expenses, start_date, end_date))

\* The tuples cmd_list appends to `entries`.  (user_code or "") and
\* (created_at or "") are the columns themselves: the INSERT stored "" where
\* None was given.
PaymentEntry(p) ==
    [t |-> "P", id |-> p.id, date |-> p.date, amount |-> p.amount,
     aux |-> p.user_code, created |-> p.created_at,
     inserted_at |-> p.inserted_at]

ExpenseEntry(e) ==
    [t |-> "E", id |-> e.id, date |-> e.date, amount |-> e.amount,
     aux |-> e.description, created |-> <<>>, inserted_at |-> e.inserted_at]

RECURSIVE InsertDesc(_, _)
\* One step of a stable descending sort: x goes behind every entry whose
\* inserted_at is not smaller than its own.
InsertDesc(sorted, x) ==
    IF sorted = <<>> THEN <<x>>
    ELSE IF StrLess(Head(sorted).inserted_at, x.inserted_at)
         THEN <<x>> \o sorted
         ELSE <<Head(sorted)>> \o InsertDesc(Tail(sorted), x)

RECURSIVE SortDescFrom(_, _)
SortDescFrom(sorted, rest) ==
    IF rest = <<>> THEN sorted
    ELSE SortDescFrom(InsertDesc(sorted, Head(rest)), Tail(rest))

\* entries.sort(key=lambda x: x[-1], reverse=True): stable, so entries with
\* the same inserted_at keep the order they had.
SortByInsertedDesc(entries) == SortDescFrom(<<>>, entries)

\* `entries` of cmd_list after the sort, from the rows the two SELECTs of
\* fetch_entries_between returned.
list_entries(pays, exps) ==
    SortByInsertedDesc([i \in 1..Len(pays) |-> PaymentEntry(pays[i])]
                       \o [i \in 1..Len(exps) |-> ExpenseEntry(exps[i])])

\* total_pages = max(1, len(entries) // PAGE_SIZE): the division rounded down.
total_pages_floor(count) == Max(1, count \div PAGE_SIZE)

\* total_pages = max(1, (len(entries) + PAGE_SIZE - 1) // PAGE_SIZE)
total_pages(count) == Max(1, (count + PAGE_SIZE - 1) \div PAGE_SIZE)

\* page = max(1, min(page, total_pages))
clamp_page(page, total) == Max(1, Min(page, total))

\* entries[start_idx:start_idx + PAGE_SIZE] with start_idx = (page-1)*PAGE_SIZE
page_entries(entries, page) ==
    SubSeq(entries, (page - 1) * PAGE_SIZE + 1,
           Min(Len(entries), (page - 1) * PAGE_SIZE + PAGE_SIZE))

\* The three argument formats of cmd_list: <<page, args of the range>>.
list_args(args) ==
    IF Len(args) = 1 /\ IsDigitStr(args[1]) THEN <<ToNat(args[1]), <<>>>>
    ELSE IF Len(args) = 3 /\ AllDigits(args, 3)
         THEN <<ToNat(args[3]), SubSeq(args, 1, 2)>>
         ELSE <<1, args>>

\* What cmd_list answers, given the sorted entries of its range.  An amount
\* that is NULL cannot be formatted (TypeError), which the handler answers
\* with its error reply.
list_reply(label, entries, requested) ==
    LET total == total_pages(Len(entries))
        page  == clamp_page(requested, total)
        shown == page_entries(entries, page)
    IN  IF shown = <<>>
        THEN [kind |-> "list_empty", label |-> label]
        ELSE IF \E i \in 1..Len(shown) : shown[i].amount = NullAmount
        THEN [kind |-> "error"]
        ELSE [kind |-> "list", label |-> label, page |-> page,
              total_pages |-> total, entries |-> shown]

\* What cmd_list holds once its range is known: the payments of the range
\* are read in the same step where the arguments give the range, and in a
\* step of their own where the clock gave it.
list_job(args0) ==
    LET rng == range_from_args(list_args(args0)[2])
    IN  [op |-> "list", label |-> rng.label, start |-> rng.start,
         end |-> rng.end, page |-> list_args(args0)[1],
         pays |-> IF RangeReadsClock(list_args(args0)[2]) THEN <<>>
                  ELSE <<fetch_payments_between(rng.start, rng.end)>>]

\* cmd_list running cleanup_old_months(KEEP_MONTHS) before it lists.
cmd_list_pruning(args0) ==
    /\ reply' = NoReply
    /\ Suspend(list_job(args0))
    /\ payments' = DeleteOlder(payments, CutoffStr(utcnow.y, utcnow.m, KEEP_MONTHS))
    /\ expenses' = DeleteOlder(expenses, CutoffStr(utcnow.y, utcnow.m, KEEP_MONTHS))
    /\ UNCHANGED <<pay_seq, exp_seq, clock, inserted, ADMIN_CHAT_ID>>

\* cmd_list up to the reading of the clock that gives its range, or, where
\* the arguments give the range, up to its first statement.
cmd_list(args0) ==
    /\ reply' = NoReply
    /\ Suspend(list_job(args0))
    /\ UNCHANGED <<ledger, clock, ADMIN_CHAT_ID>>

\* cmd_list, its first statement: the SELECT of the payments.
list_payments(t) ==
    /\ jobs[t].op = "list"
    /\ jobs[t].pays = <<>>
    /\ reply' = NoReply
    /\ Proceed(t, [jobs[t] EXCEPT
                     !.pays = <<fetch_payments_between(jobs[t].start, jobs[t].end)>>])
    /\ UNCHANGED <<ledger, clock, ADMIN_CHAT_ID>>

\* cmd_list from the SELECT of the expenses on, and the reply.
list_expenses(t) ==
    /\ jobs[t].op = "list"
    /\ jobs[t].pays /= <<>>
    /\ reply' = list_reply(jobs[t].label,
                           list_entries(Head(jobs[t].pays),
                                        fetch_expenses_between(jobs[t].start,
                                                               jobs[t].end)),
                           jobs[t].page)
    /\ Return(t)
    /\ UNCHANGED <<ledger, clock, ADMIN_CHAT_ID>>

\* _csv_rows_for_range without its header row, from the rows the two SELECTs
\* returned: the payments in the order of the query, then the expenses.
csv_rows_for_range(pays, exps) ==
    [i \in 1..Len(pays) |->
        [type |-> "payment", date |-> pays[i].date,
         amount |-> pays[i].amount, text |-> pays[i].raw,
         inserted_at |-> pays[i].inserted_at]]
    \o [i \in 1..Len(exps) |->
        [type |-> "expense", date |-> exps[i].date,
         amount |-> exps[i].amount, text |-> exps[i].description,
         inserted_at |-> exps[i].inserted_at]]

\* The caller of _csv_rows_for_range, the command ("csv") or the route
\* ("csv_http"), up to the first statement, or up to the reading of the
\* clock that gave the range (now_read): the statement is a step of its own
\* then.
csv_begin(via, rng, now_read) ==
    /\ reply' = NoReply
    /\ Suspend([op |-> "csv", via |-> via, label |-> rng.label,
                start |-> rng.start, end |-> rng.end,
                pays |-> IF now_read THEN <<>>
                         ELSE <<fetch_payments_between(rng.start, rng.end)>>])
    /\ UNCHANGED <<ledger, clock, ADMIN_CHAT_ID>>

\* _csv_rows_for_range, its first statement: the SELECT of the payments.
csv_payments(t) ==
    /\ jobs[t].op = "csv"
    /\ jobs[t].pays = <<>>
    /\ reply' = NoReply
    /\ Proceed(t, [jobs[t] EXCEPT
                     !.pays = <<fetch_payments_between(jobs[t].start, jobs[t].end)>>])
    /\ UNCHANGED <<ledger, clock, ADMIN_CHAT_ID>>

\* _csv_rows_for_range from the SELECT of the expenses on, and the document
\* sent.  An amount that is NULL cannot be formatted: the command answers
\* with its error reply, the route with status 500.
csv_expenses(t) ==
    LET job  == jobs[t]
        rows == csv_rows_for_range(Head(job.pays),
                                   fetch_expenses_between(job.start, job.end))
    IN  /\ job.op = "csv"
        /\ job.pays /= <<>>
        /\ reply' = IF \E i \in 1..Len(rows) : rows[i].amount = NullAmount
                    THEN [kind |-> IF job.via = "csv" THEN "error"
                                   ELSE "http_500"]
                    ELSE [kind |-> job.via, label |-> job.label,
                          start |-> job.start, end |-> job.end,
                          rows |-> rows]
        /\ Return(t)
        /\ UNCHANGED <<ledger, clock, ADMIN_CHAT_ID>>

\* cmd_exportcsv
cmd_exportcsv(args) ==
    csv_begin("csv", range_from_args(args), RangeReadsClock(args))

\* cmd_lastmonths
cmd_lastmonths(args) ==
    LET given == IF args /= <<>> /\ IsDigitStr(args[1])
                 THEN ToNat(args[1]) ELSE KEEP_MONTHS
        n     == IF given < 1 THEN KEEP_MONTHS ELSE given
    IN  lastmonths_begin(n, utcnow.y, utcnow.m)

\* date(y, m, d).toordinal(): the days from 0001-01-01 on, that day being 1.
Ordinal(y, m, d) ==
    LET RECURSIVE Before(_)
        Before(k) == IF k = 1 THEN 0 ELSE DaysInMonth(y, k - 1) + Before(k - 1)
    IN  365 * (y - 1) + ((y - 1) \div 4) - ((y - 1) \div 100)
        + ((y - 1) \div 400) + Before(m) + d

RECURSIVE MinusDays(_, _, _, _)
\* date(y, m, d) - timedelta(days=k): <<year, month, day>>
MinusDays(y, m, d, k) ==
    IF k < d THEN <<y, m, d - k>>
    ELSE LET py == IF m = 1 THEN y - 1 ELSE y
             pm == IF m = 1 THEN 12 ELSE m - 1
         IN  MinusDays(py, pm, DaysInMonth(py, pm), k - d)

RECURSIVE PlusDays(_, _, _, _)
\* date(y, m, d) + timedelta(days=k): <<year, month, day>>
PlusDays(y, m, d, k) ==
    IF d + k <= DaysInMonth(y, m) THEN <<y, m, d + k>>
    ELSE PlusDays(IF m = 12 THEN y + 1 ELSE y, IF m = 12 THEN 1 ELSE m + 1,
                  1, k - (DaysInMonth(y, m) - d) - 1)

\* `months` of monthly_series: for i = last_n-1 down to 0, the month of
\* (today.replace(day=1) - timedelta(days=31*i)), as <<year, month>>.
series_months(last_n) ==
    [j \in 1..last_n |->
        LET mdate == MinusDays(utcnow.y, utcnow.m, 1, 31 * (last_n - j))
        IN  <<mdate[1], mdate[2]>>]

\* What monthly_series returns, from the months and the sums v and g read
\* for them: labels, and round(v, 2), round(g, 2) and round(v - g, 2) of
\* every month.
monthly_series(months, vs, gs) ==
    [months |-> months,
     labels |-> [j \in 1..Len(months) |-> MonthLabel(months[j][2], months[j][1])],
     vendas |-> [j \in 1..Len(months) |-> Round2(vs[j])],
     gastos |-> [j \in 1..Len(months) |-> Round2(gs[j])],
     lucros |-> [j \in 1..Len(months) |-> Round2(FSub(vs[j], gs[j]))]]

\* admin up to the reading of the clock that gives the current month.
admin ==
    /\ reply' = NoReply
    /\ Suspend([op |-> "admin", y |-> utcnow.y, m |-> utcnow.m,
                vendas |-> <<>>])
    /\ UNCHANGED <<ledger, clock, ADMIN_CHAT_ID>>

\* admin, its first statement: the payments of the current month.
admin_vendas(t) ==
    /\ jobs[t].op = "admin"
    /\ jobs[t].vendas = <<>>
    /\ reply' = NoReply
    /\ Proceed(t, [jobs[t] EXCEPT
                     !.vendas = <<sum_payments_for_month(jobs[t].y, jobs[t].m)>>])
    /\ UNCHANGED <<ledger, clock, ADMIN_CHAT_ID>>

\* admin, its second statement: the expenses of the current month.  The call
\* monthly_series(8) follows.
admin_gastos(t) ==
    /\ jobs[t].op = "admin"
    /\ jobs[t].vendas /= <<>>
    /\ reply' = NoReply
    /\ Proceed(t, [op |-> "series", last_n |-> 8,
                   vendas |-> Head(jobs[t].vendas),
                   gastos |-> sum_expenses_for_month(jobs[t].y, jobs[t].m),
                   months |-> <<>>, v |-> <<>>, vs |-> <<>>, gs |-> <<>>])
    /\ UNCHANGED <<ledger, clock, ADMIN_CHAT_ID>>

\* monthly_series up to its reading of the clock: `months` is built from it.
series_today(t) ==
    /\ jobs[t].op = "series"
    /\ jobs[t].months = <<>>
    /\ reply' = NoReply
    /\ Proceed(t, [jobs[t] EXCEPT !.months = series_months(jobs[t].last_n)])
    /\ UNCHANGED <<ledger, clock, ADMIN_CHAT_ID>>

\* The next statement of monthly_series: sum_payments_for_month of the next
\* month of the series or, once that is read (v), sum_expenses_for_month of
\* it.  After the last month admin renders the page.
series_next(t) ==
    LET job    == jobs[t]
        months == job.months
        ym     == months[Len(job.vs) + 1]
        vs     == Append(job.vs, Head(job.v))
        gs     == Append(job.gs, sum_expenses_for_month(ym[1], ym[2]))
    IN  /\ job.op = "series"
        /\ months /= <<>>
        /\ IF job.v = <<>> THEN
               /\ reply' = NoReply
               /\ Proceed(t, [job EXCEPT
                                !.v = <<sum_payments_for_month(ym[1], ym[2])>>])
           ELSE IF Len(gs) = Len(months) THEN
               /\ reply' = [kind   |-> "admin",
                            vendas |-> job.vendas,
                            gastos |-> job.gastos,
                            lucro  |-> FSub(job.vendas, job.gastos),
                            series |-> monthly_series(months, vs, gs)]
               /\ Return(t)
           ELSE
               /\ reply' = NoReply
               /\ Proceed(t, [job EXCEPT !.v = <<>>, !.vs = vs, !.gs = gs])
        /\ UNCHANGED <<ledger, clock, ADMIN_CHAT_ID>>

\* start and end of export_csv_http for range=n:
\* (today - timedelta(days=31*(n-1))).strftime("%Y-%m-01") and
\* (today + timedelta(days=31)).strftime("%Y-%m-01"), today being the first
\* day of the current month.
http_range(n) ==
    LET first == MinusDays(utcnow.y, utcnow.m, 1, 31 * (n - 1))
        last  == PlusDays(utcnow.y, utcnow.m, 1, 31)
    IN  [start |-> FormatDate(first[1], first[2], 1),
         end   |-> FormatDate(last[1], last[2], 1),
         label |-> <<"u", "l", "t", "i", "m", "o", "s", "_">> \o Digits(n)
                   \o <<"_", "m", "e", "s", "e", "s">>]

\* export_csv_http up to its first statement (mm and yyyy given), or up to
\* the reading of the clock that gives its range: q holds the request
\* arguments mm, yyyy and range, <<>> standing for one that is missing or
\* empty.  An argument that int() refuses, and a range that reaches back
\* before year 1 (OverflowError), end the request with status 500.
export_csv_http(q) ==
    IF q.mm /= <<>> /\ q.yyyy /= <<>> THEN
        IF ParseInt(q.mm) = <<>> \/ ParseInt(q.yyyy) = <<>>
        THEN /\ reply' = [kind |-> "http_500"]
             /\ UNCHANGED <<ledger, clock, jobs, ADMIN_CHAT_ID>>
        ELSE csv_begin("csv_http",
                       MonthSpan(ParseInt(q.mm)[1], ParseInt(q.yyyy)[1]), FALSE)
    ELSE IF q.range /= <<>> THEN
        IF ParseInt(q.range) = <<>>
           \/ 31 * (Max(1, ParseInt(q.range)[1]) - 1) >= Ordinal(utcnow.y, utcnow.m, 1)
        THEN /\ reply' = [kind |-> "http_500"]
             /\ UNCHANGED <<ledger, clock, jobs, ADMIN_CHAT_ID>>
        ELSE csv_begin("csv_http", http_range(Max(1, ParseInt(q.range)[1])), TRUE)
    ELSE csv_begin("csv_http", MonthSpan(utcnow.m, utcnow.y), TRUE)

(***************************************************************************)
(* The queries, and the listing over a ledger that holds a journal         *)
(*                                                                         *)
(* The rows inserted are those of a journal, one after the other, at any   *)
(* time: between two statements of a query as well.  The queries run from  *)
(* the empty database on.  For the listing the database holds the first    *)
(* inserts of the journal at the start: the database is a file (DB_PATH)   *)
(* that outlives the process, and init_db creates the tables only where    *)
(* they are missing, so the program starts on the rows of earlier runs.    *)
(*                                                                         *)
(* Bounds on the schedules: MaxQueries queries are in flight at most where *)
(* every kind of query runs, and two listings where only listings run.     *)
(* The inserts and the clock are free in both.                             *)
(***************************************************************************)
\* The journal has this many inserts.
MaxRows == 24

\* The inserts of the journal made before the run.
Stored == MaxRows - MaxInserts

\* The instant at which the k-th insert was made, for the stored ones.
JournalAt(k) == IF k <= 3 THEN 1 ELSE IF k <= 17 THEN 2 ELSE 3

\* The amount of the k-th insert: k.00
JournalAmount == [k \in 1..MaxRows |-> Cents(100 * k)]

\* The inserts 2, 13, 24, ... are expenses, the others are payments.
JournalIsExpense(k) == k % 11 = 2

\* The date written in the k-th payment.
JournalDate(k) ==
    IF k = 7 THEN FormatDate(2023, 12, 31)
    ELSE FormatDate(2024, 1, (k % 5) + 1)

\* The id AUTOINCREMENT gave the k-th insert in its table.
JournalId(k) ==
    Cardinality({j \in 1..k : JournalIsExpense(j) = JournalIsExpense(k)})

\* The payments stored before the run: insert_payment_manual(date, amount,
\* raw) at the instant of each.
StoredPayments ==
    {[id            |-> JournalId(k),
      date          |-> JournalDate(k),
      amount        |-> SqlReal(JournalAmount[k]),
      raw           |-> <<>>,
      created_at    |-> <<>>,
      source        |-> "manual_text",
      user_code     |-> <<>>,
      referrer_code |-> <<>>,
      inserted_at   |-> IsoOf(Instants[JournalAt(k)])] :
        k \in {j \in 1..Stored : ~JournalIsExpense(j)}}

\* The expenses stored before the run: insert_expense(today, amount,
\* description) as cmd_addexpense calls it, at the instant of each.
StoredExpenses ==
    {[id |-> JournalId(k),
      date |-> FormatDate(Instants[JournalAt(k)].y, Instants[JournalAt(k)].m,
                          Instants[JournalAt(k)].d),
      amount |-> SqlReal(JournalAmount[k]),
      description |-> <<"c", "o", "f", "f", "e", "e">>,
      inserted_at |-> IsoOf(Instants[JournalAt(k)])] :
        k \in {j \in 1..Stored : JournalIsExpense(j)}}

\* context.args of /list
ListArgs ==
    {<<>>,
     <<<<"0">>>>,
     <<<<"2">>>>,
     <<<<"0", "1">>, <<"2", "0", "2", "4">>>>,
     <<<<"0", "1">>, <<"2", "0", "2", "4">>, <<"2">>>>,
     <<<<"0", "1">>, <<"2", "0", "2", "4">>, <<"3">>>>,
     <<<<"0", "1">>, <<"2", "0", "2", "4">>, <<"9">>>>,
     <<<<"1", "2">>, <<"2", "0", "2", "3">>, <<"0", "8">>, <<"2", "0", "2", "4">>>>,
     <<<<"1", "3">>, <<"2", "0", "2", "4">>>>,
     <<<<"0", "1">>, <<"2", "0", "2", "4">>, <<"1", "3">>, <<"2", "0", "2", "4">>>>}

\* context.args of /exportcsv
ExportArgs ==
    {<<>>,
     <<<<"0", "1">>, <<"2", "0", "2", "4">>>>,
     <<<<"1", "3">>, <<"2", "0", "2", "4">>>>,
     <<<<"1", "2">>, <<"2", "0", "2", "3">>, <<"0", "2">>, <<"2", "0", "2", "4">>>>}

\* context.args of /lastmonths
LastMonthsArgs == {<<>>, <<<<"2">>>>, <<<<"0">>>>}

\* request.args of GET /export_csv
HttpQueries ==
    {[mm |-> <<>>, yyyy |-> <<>>, range |-> <<>>],
     [mm |-> <<"0", "1">>, yyyy |-> <<"2", "0", "2", "4">>, range |-> <<>>],
     [mm |-> <<>>, yyyy |-> <<>>, range |-> <<"1">>],
     [mm |-> <<>>, yyyy |-> <<>>, range |-> <<"2">>],
     [mm |-> <<>>, yyyy |-> <<>>, range |-> <<"3">>],
     [mm |-> <<>>, yyyy |-> <<>>, range |-> <<"-", "1">>],
     [mm |-> <<>>, yyyy |-> <<>>, range |-> <<"x">>],
     [mm |-> <<"-", "1">>, yyyy |-> <<"2", "0", "2", "4">>, range |-> <<>>],
     [mm |-> <<"j", "a", "n">>, yyyy |-> <<"2", "0", "2", "4">>, range |-> <<>>]}

\* The program starts on the stored rows, at the instant of the last of
\* them; `inserted` is the history of the inserts of the run.
InitList ==
    /\ payments = StoredPayments
    /\ expenses = StoredExpenses
    /\ pay_seq = Cardinality(StoredPayments)
    /\ exp_seq = Cardinality(StoredExpenses)
    /\ clock = JournalAt(Stored)
    /\ inserted = <<>>
    /\ reply = NoReply
    /\ jobs = [t \in Slots |-> Idle]
    /\ ADMIN_CHAT_ID = <<>>

\* The inserts of the journal begun so far; the next one is the one after.
JournalNext == pay_seq + exp_seq + PendingInserts + 1

\* The next payment of the journal: insert_payment_manual(date, amount, raw)
\* up to its INSERT, now_iso() being read.
RecordPayment ==
    LET k == JournalNext
    IN  /\ Receives
        /\ Len(inserted) + PendingInserts < MaxInserts
        /\ k <= MaxRows
        /\ ~JournalIsExpense(k)
        /\ reply' = NoReply
        /\ Suspend([op |-> "insert_payment", date |-> JournalDate(k),
                    amount |-> JournalAmount[k], at |-> <<now_iso>>])
        /\ UNCHANGED <<ledger, clock, ADMIN_CHAT_ID>>

\* The next expense of the journal: insert_expense(today, amount, description)
\* as cmd_addexpense calls it, up to the reading of the clock for `today`.
RecordExpense ==
    LET k == JournalNext
    IN  /\ Receives
        /\ Len(inserted) + PendingInserts < MaxInserts
        /\ k <= MaxRows
        /\ JournalIsExpense(k)
        /\ reply' = NoReply
        /\ Suspend(expense_job(Today, JournalAmount[k],
                               <<"c", "o", "f", "f", "e", "e">>, <<>>, "cmd"))
        /\ UNCHANGED <<ledger, clock, ADMIN_CHAT_ID>>

\* What a query in flight is at.
QueryOps == {"profit", "lastmonths", "list", "csv", "admin", "series"}

\* At most this many queries are in flight at a time.
MaxQueries == 1

\* A query can be taken.
Asks ==
    /\ Receives
    /\ Cardinality({t \in Slots : jobs[t].op \in QueryOps}) < MaxQueries

QueryList == Asks /\ \E args \in ListArgs : cmd_list(args)

CmdExportCsv == Asks /\ \E args \in ExportArgs : cmd_exportcsv(args)

CmdLastMonths == Asks /\ \E args \in LastMonthsArgs : cmd_lastmonths(args)

QueryProfit == Asks /\ \E args \in ProfitArgs : cmd_profit(args)

PressButton == Asks /\ \E text \in Buttons : handle_text(text)

Admin == Asks /\ admin

ExportCsvHttp == Asks /\ \E q \in HttpQueries : export_csv_http(q)

Elapse == Tick

\* A query starts, a query or an insert in flight takes its next step, an
\* insert starts, or time passes.
NextQuery ==
    \/ RecordPayment
    \/ RecordExpense
    \/ QueryList
    \/ CmdExportCsv
    \/ CmdLastMonths
    \/ QueryProfit
    \/ PressButton
    \/ Admin
    \/ ExportCsvHttp
    \/ \E t \in Slots : store_payment(t)
    \/ \E t \in Slots : expense_now_iso(t)
    \/ \E t \in Slots : save_expense(t)
    \/ \E t \in Slots : profit_vendas(t)
    \/ \E t \in Slots : profit_gastos(t)
    \/ \E t \in Slots : lastmonths_next(t)
    \/ \E t \in Slots : list_payments(t)
    \/ \E t \in Slots : list_expenses(t)
    \/ \E t \in Slots : csv_payments(t)
    \/ \E t \in Slots : csv_expenses(t)
    \/ \E t \in Slots : admin_vendas(t)
    \/ \E t \in Slots : admin_gastos(t)
    \/ \E t \in Slots : series_today(t)
    \/ \E t \in Slots : series_next(t)
    \/ Elapse

\* The queries run on a database that is empty at the start, and on one that
\* holds the stored rows.
InitQuery == InitStore \/ InitList

SpecQuery == InitQuery /\ [][NextQuery]_vars

CmdList == Receives /\ \E args \in ListArgs : cmd_list(args)

\* A listing starts, a listing or an insert in flight takes its next step, an
\* insert starts, or time passes.  Two handlers overlap at most.
NextList ==
    \/ RecordPayment
    \/ RecordExpense
    \/ CmdList
    \/ \E t \in Slots : store_payment(t)
    \/ \E t \in Slots : expense_now_iso(t)
    \/ \E t \in Slots : save_expense(t)
    \/ \E t \in Slots : list_payments(t)
    \/ \E t \in Slots : list_expenses(t)
    \/ Elapse

SpecList == InitList /\ [][NextList]_vars

(***************************************************************************)
(* C12  Queries leave the ledger as it was                                 *)
(***************************************************************************)
\* The replies of the query operations: profit, lastMonths, list, the two CSV
\* exports, the dashboard, and the error reply of any of them.
QueryKinds ==
    {"profit", "lastmonths", "list", "list_empty", "csv", "csv_http", "admin",
     "error", "http_500"}

\* The step is a step of a query: the first one, one in between, or the one
\* that ends with the reply.
QueryStep ==
    \/ \E args \in ListArgs : cmd_list(args)
    \/ \E args \in ExportArgs : cmd_exportcsv(args)
    \/ \E args \in LastMonthsArgs : cmd_lastmonths(args)
    \/ \E args \in ProfitArgs : cmd_profit(args)
    \/ \E text \in Buttons : handle_text(text)
    \/ admin
    \/ \E q \in HttpQueries : export_csv_http(q)
    \/ \E t \in Slots :
          \/ profit_vendas(t) \/ profit_gastos(t) \/ lastmonths_next(t)
          \/ list_payments(t) \/ list_expenses(t)
          \/ csv_payments(t) \/ csv_expenses(t)
          \/ admin_vendas(t) \/ admin_gastos(t)
          \/ series_today(t) \/ series_next(t)
    \/ reply'.kind \in QueryKinds

\* C12: every step of a query (profit, lastMonths, list, CSV export by
\* command or over HTTP, dashboard), whatever the ledger and the arguments,
\* leaves the tables payments and expenses exactly as they were before it.
C12_QueriesLeaveLedger ==
    [][(payments' = payments /\ expenses' = expenses) \/ ~QueryStep]_vars

\* A CSV export of December 2023 to February 2024 was answered with 23 rows
\* while the ledger held all the rows of the journal, two of them inserted
\* in this run.
C12_Witness ==
    /\ reply.kind = "csv"
    /\ Len(reply.rows) = 23
    /\ Cardinality(payments) + Cardinality(expenses) >= 24
    /\ Len(inserted) = 2
    /\ \A i \in 1..Len(reply.rows) :
          \E r \in payments \cup expenses :
              r.date = reply.rows[i].date /\ r.amount = reply.rows[i].amount

(***************************************************************************)
(* C13  Month and year arguments are validated                             *)
(***************************************************************************)
\* /profit with a month and no year, and with month 13.
BadProfitArgs ==
    {<<<<"7">>>>,
     <<<<"1", "3">>, <<"2", "0", "2", "4">>>>}

\* /list and /exportcsv with month 13, alone and as the end of a range.
BadRangeArgs ==
    {<<<<"1", "3">>, <<"2", "0", "2", "4">>>>,
     <<<<"0", "1">>, <<"2", "0", "2", "4">>, <<"1", "3">>, <<"2", "0", "2", "4">>>>}

\* C13: profit, list and exportcsv called with only one of month and year, or
\* with a month outside 1..12 (for any month of a range), answer with an
\* error and give no summary, listing or export.
C13_BadArgsRejected ==
    [][/\ \A args \in BadProfitArgs :
              cmd_profit(args) => reply'.kind = "error"
       /\ \A args \in BadRangeArgs :
              (cmd_list(args) \/ cmd_exportcsv(args)) => reply'.kind = "error"]_vars

(***************************************************************************)
(* C15  Listing: merge, order, pages                                       *)
(***************************************************************************)
\* The ranges asked of /list: the current month, January 2024, and
\* December 2023 to August 2024.
ListRanges ==
    {<<>>,
     <<<<"0", "1">>, <<"2", "0", "2", "4">>>>,
     <<<<"1", "2">>, <<"2", "0", "2", "3">>, <<"0", "8">>, <<"2", "0", "2", "4">>>>}

\* The rows of both tables dated in [start, end), named by table and id.
InRange(start, end_) ==
    {<<"P", p.id>> : p \in RowsBetween(payments, start, end_)}
    \cup {<<"E", e.id>> : e \in RowsBetween(expenses, start, end_)}

\* max(1, ceil(count / PAGE_SIZE)), from its meaning: the least number of
\* pages of PAGE_SIZE entries that hold `count` entries, and 1 for none.
PagesFor(count) ==
    IF count = 0 THEN 1
    ELSE CHOOSE t \in 1..count :
            t * PAGE_SIZE >= count /\ (t - 1) * PAGE_SIZE < count

RECURSIVE PagesConcat(_, _, _, _)
\* The entries shown on pages `from`..`to`, one after the other.
PagesConcat(label, entries, from, to) ==
    IF from > to THEN <<>>
    ELSE LET r == list_reply(label, entries, from)
         IN  (IF r.kind = "list" THEN r.entries ELSE <<>>)
             \o PagesConcat(label, entries, from + 1, to)

Descending(entries) ==
    \A i \in 1..(Len(entries) - 1) :
        StrLeq(entries[i + 1].inserted_at, entries[i].inserted_at)

\* The listing of one range: what every requested page 0..T+1 shows.
PagesRight(start, end_, label, entries) ==
    LET wanted == InRange(start, end_)
        count  == Cardinality(wanted)
        T      == PagesFor(count)
        all    == PagesConcat(label, entries, 1, T)
    IN  /\ Len(all) = count
        /\ {<<all[i].t, all[i].id>> : i \in 1..Len(all)} = wanted
        /\ Descending(all)
        /\ \A requested \in 0..(T + 1) :
              LET r == list_reply(label, entries, requested)
              IN  IF count = 0 THEN r.kind = "list_empty"
                  ELSE /\ r.kind = "list"
                       /\ r.total_pages = T
                       /\ r.page = (IF requested < 1 THEN 1
                                    ELSE IF requested > T THEN T
                                    ELSE requested)
                       /\ Len(r.entries) = (IF r.page < T THEN PAGE_SIZE
                                            ELSE count - (T - 1) * PAGE_SIZE)

\* C15: for every range, the listing merges the payments and expenses dated in
\* the range and orders them descending by inserted_at; the page shown is the
\* requested one clamped to [1, totalPages], totalPages being
\* max(1, ceil(count / PAGE_SIZE)), a page holds PAGE_SIZE entries (the last
\* one the rest), and over pages 1..totalPages every entry of the range is
\* shown exactly once.  The listing last sent obeys the same limits.
C15_ListPagination ==
    /\ \A rargs \in ListRanges :
          \A rng \in {range_from_args(rargs)} :
              \A entries \in {list_entries(
                                   fetch_payments_between(rng.start, rng.end),
                                   fetch_expenses_between(rng.start, rng.end))} :
                  PagesRight(rng.start, rng.end, rng.label, entries)
    /\ reply.kind = "list"
          => /\ reply.page \in 1..reply.total_pages
             /\ Len(reply.entries) \in 1..PAGE_SIZE
             /\ Descending(reply.entries)
             /\ \A i \in 1..Len(reply.entries) :
                   \E r \in (IF reply.entries[i].t = "P" THEN payments
                             ELSE expenses) :
                       /\ r.id = reply.entries[i].id
                       /\ r.inserted_at = reply.entries[i].inserted_at

\* Page 3 of 3 of January 2024 was listed while another listing was in
\* flight: the 21st entry of the month, alone, the second payment of the
\* oldest instant.
C15_Witness ==
    /\ reply.kind = "list"
    /\ reply.total_pages = 3
    /\ reply.page = 3
    /\ Len(reply.entries) = 1
    /\ reply.entries[1].t = "P"
    /\ reply.entries[1].id = 2
    /\ jobs["first"].op = "list"
    /\ Cardinality(InRange(FormatDate(2024, 1, 1), FormatDate(2024, 2, 1))) = 21

(***************************************************************************)
(* C17  The last n months of the dashboard and of the HTTP export          *)
(***************************************************************************)
\* The month k months before the current one, as <<year, month>>.
MonthsBack(k) ==
    LET ym == utcnow.y * 12 + (utcnow.m - 1) - k
    IN  <<ym \div 12, (ym % 12) + 1>>

\* The lengths asked of /export_csv?range=n.
HttpLengths == 1..3

\* The lengths of the series: admin asks for 8.
SeriesLengths == {2, 8}

\* The months from the month of date `start` up to, not including, the month
\* of date `end_`, both "YYYY-MM-01".
MonthsFrom(start, end_) ==
    (ToNat(SubSeq(end_, 1, 4)) * 12 + ToNat(SubSeq(end_, 6, 7)))
    - (ToNat(SubSeq(start, 1, 4)) * 12 + ToNat(SubSeq(start, 6, 7)))

\* C17: the months of the dashboard series are the n consecutive calendar
\* months that end with the current month, oldest first; the HTTP export of
\* the last n months starts on the first day of the month n-1 months before
\* the current one and ends on the first day of next month.  So the series a
\* dashboard shows is made of consecutive months, and an export of the last
\* n months that was sent spans n months.
C17_LastMonthsCovered ==
    /\ \A n \in SeriesLengths :
          \A j \in 1..n : series_months(n)[j] = MonthsBack(n - j)
    /\ \A n \in HttpLengths :
          /\ http_range(n).start
                = FormatDate(MonthsBack(n - 1)[1], MonthsBack(n - 1)[2], 1)
          /\ http_range(n).end
                = date_from_mm_yyyy(month_after(utcnow.m, utcnow.y)[1],
                                    month_after(utcnow.m, utcnow.y)[2])
    /\ reply.kind = "admin"
          => \A j \in 1..(Len(reply.series.months) - 1) :
                reply.series.months[j + 1]
                    = <<month_after(reply.series.months[j][2],
                                    reply.series.months[j][1])[2],
                        month_after(reply.series.months[j][2],
                                    reply.series.months[j][1])[1]>>
    /\ reply.kind = "csv_http"
          => \A n \in HttpLengths :
                reply.label = http_range(n).label
                    => MonthsFrom(reply.start, reply.end) = n

=============================================================================
